---- MODULE Spec2Model ----
(***************************************************************************)
(* Authentication and permission-resolution core of the LMS backend.       *)
(*                                                                         *)
(* Values follow Python's semantics as the source is written:              *)
(*   - the database wrapper (app/services/d1_service.py) is synchronous:   *)
(*     fetch_one/fetch_all/execute run the statement and return a plain    *)
(*     value;                                                              *)
(*   - `await v` on a plain value v (a dict, an int, None) raises          *)
(*     TypeError after v has been computed (operator Await);               *)
(*   - calling an `async def` function without `await` builds a coroutine  *)
(*     object whose body never runs (value Coroutine).                     *)
(* Every result of a call is a record [kind, val]: kind "return" with the  *)
(* returned value, "raise" with the exception, "http" with the response.   *)
(***************************************************************************)
EXTENDS FiniteSets, Integers, Sequences, TLC

(* ---------- bounds of the model ---------- *)
MaxUsers == 2          \* rows the users table may ever hold
MaxOps == 3            \* calls and clock advances in one behaviour

(* ---------- inputs ---------- *)
Emails == {"a@x.com", "b@x.com"}
Passwords == {"pw1", "pw2"}
ADMIN_EMAIL == "admin@lms.com"
ADMIN_PASSWORD == "Gratitude@2025"

(* time is counted in units of 15 minutes *)
ACCESS_TOKEN_EXPIRE == 1
REFRESH_TOKEN_EXPIRE == 672
TickSteps == {2, 700}

(* ---------- Python values ---------- *)
None == [none |-> TRUE]
Coroutine == [coroutine |-> TRUE]
PyBool(b) == [bool |-> b]
NULL_ID == -1
NoClaim == "<absent>"

Return(v) == [kind |-> "return", val |-> v]
Raise(e, msg) == [kind |-> "raise", val |-> [exc |-> e, msg |-> msg]]
Http(code, detail) == [kind |-> "http", val |-> [status |-> code, detail |-> detail]]
IsReturn(o) == o.kind = "return"
IsRaise(o) == o.kind = "raise"

\* `await v` where v is the plain value of a synchronous call
Await(o) == IF IsRaise(o) THEN o ELSE Raise("TypeError", "object can't be used in 'await' expression")

\* str(n) and int(s) (ToInt) on the ids the model uses
Digits == <<"0", "1", "2", "3", "4", "5", "6", "7", "8", "9">>
Str(n) == Digits[n + 1]
ToInt(s) == CHOOSE n \in 0..9 : Digits[n + 1] = s

(* ---------- app/core/security.py ---------- *)
hash_password(password) == [scheme |-> "argon2", pw |-> password]
verify_password(plain, hashed) == hashed.pw = plain

VARIABLES users, nextUserId, sessions, audit_logs, issued, mail, now, ops, last,
          roles, groups, user_groups, user_permissions, reqs

vars == <<users, nextUserId, sessions, audit_logs, issued, mail, now, ops, last,
          roles, groups, user_groups, user_permissions, reqs>>


(* ---------- app/core/jwt.py ---------- *)
NoExtra == [email |-> NoClaim, role |-> NoClaim]

\* expires_delta None is passed as 0: `if expires_delta:` treats both alike.
\* subject arrives as a string from every caller, so str(subject) is subject.
\* t is datetime.utcnow(), j the value drawn by secrets.token_urlsafe.
_make_payload(subject, typ, expires_delta, extra_claims, t, j) ==
    [sub |-> subject,
     exp |-> IF expires_delta # 0 THEN t + expires_delta
             ELSE t + (IF typ = "access" THEN ACCESS_TOKEN_EXPIRE ELSE REFRESH_TOKEN_EXPIRE),
     type |-> typ,
     jti |-> j,
     email |-> extra_claims.email,
     role |-> extra_claims.role]

\* _encode signs the payload with settings.SECRET_KEY
_encode(payload) == [payload |-> payload, sig |-> "SECRET_KEY"]

create_access_token(subject, expires_delta, extra_claims, t, j) ==
    _encode(_make_payload(subject, "access", expires_delta, extra_claims, t, j))

\* a mutant: the refresh token is built with the type of an access token
create_refresh_token_as_access(subject, expires_delta, extra_claims, t, j) ==
    _encode(_make_payload(subject, "access", expires_delta, extra_claims, t, j))

create_refresh_token(subject, expires_delta, extra_claims, t, j) ==
    _encode(_make_payload(subject, "refresh", expires_delta, extra_claims, t, j))

Malformed == [malformed |-> TRUE]
Forge(token) == [token EXCEPT !.sig = "other-key"]

\* a mutant: the exp claim is not looked at
decode_token_unexpiring(token, t) ==
    IF token = Malformed THEN None
    ELSE IF token.sig # "SECRET_KEY" THEN None
    ELSE token.payload

\* _decode checks the signature and the exp claim; decode_token turns the
\* library's exception into None
decode_token(token, t) ==
    IF token = Malformed THEN None
    ELSE IF token.sig # "SECRET_KEY" THEN None
    ELSE IF token.payload.exp < t THEN None
    ELSE token.payload

(* ---------- the relational store ---------- *)
fetch_user_by_email(U, e) ==
    IF \E u \in U : u.email = e THEN CHOOSE u \in U : u.email = e ELSE None

fetch_user_by_id(U, i) ==
    IF \E u \in U : u.id = i THEN CHOOSE u \in U : u.id = i ELSE None

\* a mutant: the users table without its UNIQUE constraint on email
insert_user_unconstrained(U, row) == Return(row)

\* users.email is UNIQUE NOT NULL: an insert of a second row with the email raises
insert_user(U, row) ==
    IF \E u \in U : u.email = row.email THEN Raise("IntegrityError", "UNIQUE constraint failed: users.email")
    ELSE Return(row)

NewUser(i, e, hashed, verified, role, provider) ==
    [id |-> i, email |-> e, hashed_password |-> hashed, is_active |-> TRUE,
     is_verified |-> verified, role |-> role, oauth_provider |-> provider,
     oauth_provider_id |-> provider]

(* ---------- app/services/audit_service.py ---------- *)
NoMeta == [empty |-> TRUE]

\* json.dumps raises TypeError on a value that is not serializable
json_dumps(meta) ==
    IF meta = [session_id |-> Coroutine]
    THEN Raise("TypeError", "Object of type coroutine is not JSON serializable")
    ELSE Return(meta)

\* log() serializes meta and then executes
\* audit_logs.insert().values(user_id, action, meta, ip_address, status): the
\* table of app/models.py has the column ip and none named ip_address, so the
\* statement does not compile and database.execute raises before any row is
\* written
log(user_id, action, meta) ==
    IF IsRaise(json_dumps(meta)) THEN json_dumps(meta)
    ELSE Raise("CompileError", "Unconsumed column names: ip_address")

\* what a caller that does not catch the exception of log() ends with: the
\* exception, or its own result and the audit row
after_log(audit, ret, tokens) ==
    IF IsRaise(audit) THEN [ret |-> audit, tokens |-> {}, logs |-> <<>>]
    ELSE [ret |-> ret, tokens |-> tokens, logs |-> <<audit.val>>]

(* ---------- app/services/session_service.py ---------- *)
\* create_session is `async def`: the call in authenticate_user, which has no
\* await, yields a coroutine object and inserts no row
create_session(user_id) == Coroutine

(* ---------- app/services/auth_service.py ---------- *)
NoProvider == "<none>"
IsFalsy(hashed) == hashed = None \/ hashed = [str |-> ""]

\* a mutant: an unknown email is reported as such
auth_not_found_reported(email) ==
    [ret |-> Raise("ValueError", "User not found"), tokens |-> {}, logs |-> <<>>]

\* the three failing exits of authenticate_user
auth_not_found(email) ==
    after_log(log(NULL_ID, "auth.failure", [reason |-> "not_found"]), Return(None), {})

auth_no_password(user) ==
    [ret |-> Return(None), tokens |-> {}, logs |-> <<>>]

auth_invalid_password(user) ==
    after_log(log(user.id, "auth.failure", [reason |-> "invalid_password"]), Return(None), {})

\* the statements of authenticate_user after the credential checks
auth_success(user, t, j) ==
    LET session == create_session(user.id)
        access == create_access_token(Str(user.id), ACCESS_TOKEN_EXPIRE, NoExtra, t, j)
        refresh == create_refresh_token(Str(user.id), REFRESH_TOKEN_EXPIRE, NoExtra, t, j)
        audit == log(user.id, "auth.success", [session_id |-> session])
    IN after_log(audit, Return([access_token |-> access, refresh_token |-> refresh]),
                 {access, refresh})

\* authenticate_user in password mode: the value returned or exception raised,
\* the audit rows written and the tokens handed to the caller
authenticate_user(U, email, password, t, j) ==
    LET user == fetch_user_by_email(U, email) IN
    IF user = None THEN auth_not_found(email)
    ELSE IF IsFalsy(user.hashed_password) THEN auth_no_password(user)
    ELSE IF ~verify_password(password, user.hashed_password) THEN auth_invalid_password(user)
    ELSE auth_success(user, t, j)

\* authenticate_user in OAuth mode: oauth_user is given, the password is skipped
authenticate_oauth_user(oauth_user, t, j) == auth_success(oauth_user, t, j)

\* refresh_tokens: payload.get("sub") is the string the token carries
refresh_tokens(refresh_token, t, j) ==
    LET payload == decode_token(refresh_token, t) IN
    IF payload = None THEN [ret |-> Return(None), tokens |-> {}, logs |-> <<>>]
    ELSE IF payload.type # "refresh" THEN [ret |-> Return(None), tokens |-> {}, logs |-> <<>>]
    ELSE LET user_id == payload.sub
             access == create_access_token(user_id, ACCESS_TOKEN_EXPIRE, NoExtra, t, j)
             refresh == create_refresh_token(user_id, REFRESH_TOKEN_EXPIRE, NoExtra, t, j)
             audit == log(ToInt(user_id), "auth.refresh", NoMeta)
         IN after_log(audit, Return([access_token |-> access, refresh_token |-> refresh]),
                      {access, refresh})

logout(refresh_token, t) ==
    LET payload == decode_token(refresh_token, t) IN
    IF payload = None THEN [ret |-> Return(PyBool(FALSE)), tokens |-> {}, logs |-> <<>>]
    ELSE after_log(log(ToInt(payload.sub), "auth.logout", NoMeta), Return(PyBool(TRUE)), {})

\* try: audit_service.log(...) except Exception: print(...)
logged_or_skipped(audit) == IF IsRaise(audit) THEN <<>> ELSE <<audit.val>>

\* register_user from the insert on (the statements after the existence check)
register_insert(U, nextId, email, password, loop, t, j) ==
    LET row == NewUser(nextId, email, hash_password(password), FALSE, "student", NoProvider)
        ins == insert_user(U, row)
    IN IF IsRaise(ins)
       THEN [ret |-> Raise("ValueError", "Failed to create user"), users |-> U,
             tokens |-> {}, mail |-> {}, logs |-> <<>>]
       ELSE LET token == create_refresh_token(Str(row.id), 0, NoExtra, t, j) IN
            [ret |-> Return(row), users |-> U \cup {row},
             tokens |-> IF loop THEN {token} ELSE {},
             mail |-> IF loop THEN {[to |-> email, token |-> token]} ELSE {},
             logs |-> logged_or_skipped(log(row.id, "user.register", NoMeta))]

\* a mutant: the existence check is left out
register_user_unchecked(U, nextId, email, password, loop, t, j) ==
    register_insert(U, nextId, email, password, loop, t, j)

\* loop: whether an event loop is running, so that the verification mail is scheduled
register_user(U, nextId, email, password, loop, t, j) ==
    IF fetch_user_by_email(U, email) # None
    THEN [ret |-> Raise("ValueError", "User already exists"), users |-> U,
          tokens |-> {}, mail |-> {}, logs |-> <<>>]
    ELSE register_insert(U, nextId, email, password, loop, t, j)

(* ---------- app/core/dependencies.py ---------- *)
\* the synthetic principal of the env-based admin
EnvAdmin(payload) ==
    [id |-> 0, email |-> payload.email, role |-> "admin", is_active |-> TRUE,
     is_verified |-> TRUE, hashed_password |-> None]

\* a mutant: the type claim is not looked at
not_access_unchecked(payload) == FALSE

\* `payload.get("type") != "access"` of get_current_user
not_access(payload) == payload.type # "access"

get_current_user(U, token, t) ==
    LET payload == decode_token(token, t) IN
    IF payload = None
    THEN Http(401, "Invalid authentication credentials")
    ELSE IF not_access(payload)
    THEN Http(401, "Invalid authentication credentials")
    ELSE IF payload.sub = ""
    THEN Http(401, "Invalid token payload")
    ELSE IF payload.sub = "0" /\ payload.role = "admin"
    THEN Return(EnvAdmin(payload))
    ELSE LET user == Await(Return(fetch_user_by_id(U, ToInt(payload.sub)))) IN
         IF IsRaise(user) THEN user
         ELSE IF user.val = None THEN Http(401, "User not found")
         ELSE IF ~user.val.is_active THEN Http(403, "User account is inactive")
         ELSE Return(user.val)

NoHeader == [header |-> "absent"]

get_optional_user(U, token, t) ==
    IF token = NoHeader THEN Return(None)
    ELSE LET payload == decode_token(token, t) IN
         IF payload = None THEN Return(None)
         ELSE IF payload.type # "access" THEN Return(None)
         ELSE IF payload.sub = "" THEN Return(None)
         ELSE LET user == Await(Return(fetch_user_by_id(U, ToInt(payload.sub)))) IN
              IF IsRaise(user) THEN user ELSE Return(user.val)

(* ---------- app/routers/admin_auth.py ---------- *)
\* a mutant: the password is not compared
admin_login_unchecked(email, password, t, j) ==
    IF email # ADMIN_EMAIL
    THEN [ret |-> Http(401, "Invalid admin credentials"), tokens |-> {}]
    ELSE LET extra_claims == [email |-> email, role |-> "admin"]
             access_token == create_access_token("0", 0, extra_claims, t, j)
             refresh_token == create_refresh_token("0", 0, extra_claims, t, j)
         IN [ret |-> Return([access_token |-> access_token, refresh_token |-> refresh_token]),
             tokens |-> {access_token, refresh_token}]

admin_login(email, password, t, j) ==
    IF email # ADMIN_EMAIL
    THEN [ret |-> Http(401, "Invalid admin credentials"), tokens |-> {}]
    ELSE IF password # ADMIN_PASSWORD
    THEN [ret |-> Http(401, "Invalid admin credentials"), tokens |-> {}]
    ELSE LET extra_claims == [email |-> email, role |-> "admin"]
             access_token == create_access_token("0", 0, extra_claims, t, j)
             refresh_token == create_refresh_token("0", 0, extra_claims, t, j)
         IN [ret |-> Return([access_token |-> access_token, refresh_token |-> refresh_token]),
             tokens |-> {access_token, refresh_token}]

(* ---------- app/routers/auth.py ---------- *)
\* login awaits the value authenticate_user returned
login(auth) ==
    LET data == Await(auth.ret) IN
    IF IsRaise(data) THEN data
    ELSE IF data.val = None THEN Http(401, "Invalid credentials")
    ELSE Return(data.val)

\* register awaits the row register_user returned; a ValueError becomes a 400
register(reg) ==
    LET user == Await(reg) IN
    IF IsRaise(user) /\ user.val.exc = "ValueError" THEN Http(400, user.val.msg)
    ELSE IF IsRaise(user) THEN user
    ELSE Return([ok |-> TRUE, user |-> [id |-> user.val.id, email |-> user.val.email]])

(* ---------- state machine: calls made one after another ---------- *)
NoArg == [email |-> "", password |-> "", token |-> NoHeader]
\* the last call: its arguments, what it returned or raised, the response of its
\* route, the tokens it handed out and the audit rows it wrote
Call(op, arg, ret, http, tokens, logs) ==
    [op |-> op, arg |-> arg, ret |-> ret, http |-> http, tokens |-> tokens, logs |-> logs]

\* an admin access token signed with another key
ForgedAdmin ==
    Forge(create_access_token("0", 0, [email |-> ADMIN_EMAIL, role |-> "admin"], 0, 0))

\* tokens a caller can present: the ones handed out, a forged one, and a string
\* that is no token
Presented == issued \cup {ForgedAdmin, Malformed}

Init ==
    /\ users = {}
    /\ nextUserId = 1
    /\ sessions = {}
    /\ audit_logs = <<>>
    /\ issued = {}
    /\ mail = {}
    /\ now = 0
    /\ ops = 0
    /\ last = Call("init", NoArg, Return(None), Return(None), {}, <<>>)
    /\ roles = {}
    /\ groups = {}
    /\ user_groups = {}
    /\ user_permissions = {}
    /\ reqs = <<>>

PermTables == <<roles, groups, user_groups, user_permissions>>

Register(email, password, loop) ==
    /\ ops < MaxOps
    /\ fetch_user_by_email(users, email) = None => Cardinality(users) < MaxUsers
    /\ LET r == register_user(users, nextUserId, email, password, loop, now, ops) IN
       /\ users' = r.users
       /\ nextUserId' = IF r.users = users THEN nextUserId ELSE nextUserId + 1
       /\ issued' = issued \cup r.tokens
       /\ mail' = mail \cup r.mail
       /\ audit_logs' = audit_logs \o r.logs
       /\ last' = Call("register", [NoArg EXCEPT !.email = email, !.password = password],
                       r.ret, register(r.ret), r.tokens, r.logs)
    /\ ops' = ops + 1
    /\ UNCHANGED <<sessions, now, PermTables, reqs>>

Login(email, password) ==
    /\ ops < MaxOps
    /\ LET r == authenticate_user(users, email, password, now, ops) IN
       /\ issued' = issued \cup r.tokens
       /\ audit_logs' = audit_logs \o r.logs
       /\ last' = Call("login", [NoArg EXCEPT !.email = email, !.password = password],
                       r.ret, login(r), r.tokens, r.logs)
    /\ ops' = ops + 1
    /\ UNCHANGED <<users, nextUserId, sessions, mail, now, PermTables, reqs>>

OAuthAuthenticate(oauth_user) ==
    /\ ops < MaxOps
    /\ LET r == authenticate_oauth_user(oauth_user, now, ops) IN
       /\ issued' = issued \cup r.tokens
       /\ audit_logs' = audit_logs \o r.logs
       /\ last' = Call("authenticate_oauth", [NoArg EXCEPT !.email = oauth_user.email],
                       r.ret, login(r), r.tokens, r.logs)
    /\ ops' = ops + 1
    /\ UNCHANGED <<users, nextUserId, sessions, mail, now, PermTables, reqs>>

Refresh(token) ==
    /\ ops < MaxOps
    /\ LET r == refresh_tokens(token, now, ops) IN
       /\ issued' = issued \cup r.tokens
       /\ audit_logs' = audit_logs \o r.logs
       /\ last' = Call("refresh", [NoArg EXCEPT !.token = token], r.ret, r.ret, r.tokens, r.logs)
    /\ ops' = ops + 1
    /\ UNCHANGED <<users, nextUserId, sessions, mail, now, PermTables, reqs>>

Logout(token) ==
    /\ ops < MaxOps
    /\ LET r == logout(token, now) IN
       /\ audit_logs' = audit_logs \o r.logs
       /\ last' = Call("logout", [NoArg EXCEPT !.token = token], r.ret, r.ret, {}, r.logs)
    /\ ops' = ops + 1
    /\ UNCHANGED <<users, nextUserId, sessions, issued, mail, now, PermTables, reqs>>

AdminLogin(email, password) ==
    /\ ops < MaxOps
    /\ LET r == admin_login(email, password, now, ops) IN
       /\ issued' = issued \cup r.tokens
       /\ last' = Call("admin_login", [NoArg EXCEPT !.email = email, !.password = password],
                       r.ret, r.ret, r.tokens, <<>>)
    /\ ops' = ops + 1
    /\ UNCHANGED <<users, nextUserId, sessions, audit_logs, mail, now, PermTables, reqs>>

GetCurrentUser(token) ==
    /\ ops < MaxOps
    /\ last' = Call("get_current_user", [NoArg EXCEPT !.token = token],
                    get_current_user(users, token, now), get_current_user(users, token, now),
                    {}, <<>>)
    /\ ops' = ops + 1
    /\ UNCHANGED <<users, nextUserId, sessions, audit_logs, issued, mail, now,
                   PermTables, reqs>>

GetOptionalUser(token) ==
    /\ ops < MaxOps
    /\ last' = Call("get_optional_user", [NoArg EXCEPT !.token = token],
                    get_optional_user(users, token, now), get_optional_user(users, token, now),
                    {}, <<>>)
    /\ ops' = ops + 1
    /\ UNCHANGED <<users, nextUserId, sessions, audit_logs, issued, mail, now,
                   PermTables, reqs>>

Tick(d) ==
    /\ ops < MaxOps
    /\ now' = now + d
    /\ ops' = ops + 1
    /\ UNCHANGED <<users, nextUserId, sessions, audit_logs, issued, mail, last,
                   PermTables, reqs>>

Next ==
    \/ \E e \in Emails, p \in Passwords, loop \in BOOLEAN : Register(e, p, loop)
    \/ \E e \in Emails, p \in Passwords : Login(e, p)
    \/ \E u \in users : OAuthAuthenticate(u)
    \/ \E tk \in Presented : Refresh(tk)
    \/ \E tk \in Presented : Logout(tk)
    \/ \E e \in {"a@x.com", ADMIN_EMAIL}, p \in {"pw1", ADMIN_PASSWORD} : AdminLogin(e, p)
    \/ \E tk \in Presented : GetCurrentUser(tk)
    \/ \E tk \in Presented \cup {NoHeader} : GetOptionalUser(tk)
    \/ \E d \in TickSteps : Tick(d)

Spec == Init /\ [][Next]_vars

(* ---------- claims checked under Spec ---------- *)

\* C1: get_current_user and get_optional_user yield a principal only for a token
\* whose decoded type claim is "access"; every validly signed, unexpired token of
\* type "refresh" gets 401 from get_current_user and None from get_optional_user.
C1_AccessOnly ==
    \A tk \in Presented :
        LET payload == decode_token(tk, now)
            cu == get_current_user(users, tk, now)
            ou == get_optional_user(users, tk, now)
        IN /\ IsReturn(cu) => (payload # None /\ payload.type = "access")
           /\ (IsReturn(ou) /\ ou.val # None) => (payload # None /\ payload.type = "access")
           /\ (payload # None /\ payload.type = "refresh")
                 => /\ cu = Http(401, "Invalid authentication credentials")
                    /\ ou = Return(None)

\* a refresh token handed out by a later call (the verification link of a second
\* register) was presented to get_current_user while unexpired, and was turned away
C1_Witness ==
    /\ last.op = "get_current_user"
    /\ last.arg.token \in issued
    /\ decode_token(last.arg.token, now) # None
    /\ decode_token(last.arg.token, now).type = "refresh"
    /\ last.arg.token.payload.jti > 0
    /\ last.ret = Http(401, "Invalid authentication credentials")

\* C2: refresh_tokens and logout reject a valid token whose type is not "refresh":
\* refresh_tokens hands out no pair, logout returns False and writes no audit row.
C2_RefreshOnly ==
    (/\ last.op \in {"refresh", "logout"}
     /\ decode_token(last.arg.token, now) # None
     /\ decode_token(last.arg.token, now).type # "refresh")
    => /\ last.tokens = {}
       /\ last.logs = <<>>
       /\ last.op = "refresh" => last.ret = Return(None)
       /\ last.op = "logout" => last.ret = Return(PyBool(FALSE))

\* the refresh_tokens half of C2, which the code keeps
C2_Witness ==
    /\ last.op = "refresh"
    /\ decode_token(last.arg.token, now) # None
    /\ decode_token(last.arg.token, now).type = "access"
    /\ last.ret = Return(None)

\* the credentials of a login are good: the row exists, has a hash, and it verifies
GoodCredentials(U, email, password) ==
    /\ fetch_user_by_email(U, email) # None
    /\ ~IsFalsy(fetch_user_by_email(U, email).hashed_password)
    /\ verify_password(password, fetch_user_by_email(U, email).hashed_password)

\* C7: authenticate_user in password mode returns a token pair exactly when the
\* credentials are good; a failing call returns None, creates no session row and
\* hands out no token.
C7_PairIffCredentials ==
    [][(last'.op = "login" /\ ops' # ops /\ now' = now) =>
         IF GoodCredentials(users, last'.arg.email, last'.arg.password)
         THEN /\ IsReturn(last'.ret)
              /\ last'.ret.val # None
              /\ last'.tokens = {last'.ret.val.access_token, last'.ret.val.refresh_token}
         ELSE /\ last'.ret = Return(None)
              /\ last'.tokens = {}
              /\ issued' = issued
              /\ sessions' = sessions]_vars

\* the failing half of C7: a wrong password after a successful register
C7_Witness ==
    /\ last.op = "login"
    /\ fetch_user_by_email(users, last.arg.email) # None
    /\ ~GoodCredentials(users, last.arg.email, last.arg.password)
    /\ ~IsReturn(last.ret)
    /\ last.tokens = {}
    /\ sessions = {}

C9_DuplicateRejected ==
    [][(/\ last'.op = "register"
        /\ ops' # ops /\ now' = now
        /\ fetch_user_by_email(users, last'.arg.email) # None)
       => /\ last'.ret = Raise("ValueError", "User already exists")
          /\ last'.http = Http(400, "User already exists")
          /\ users' = users
          /\ issued' = issued
          /\ mail' = mail
          /\ audit_logs' = audit_logs
          /\ sessions' = sessions]_vars

C9_Witness ==
    /\ last.op = "register"
    /\ last.http = Http(400, "User already exists")
    /\ users # {}

(* ---------- permission tables: app/models.py ---------- *)
Permissions == {"blog.write", "all"}
QueryPermissions == {"blog.write", "course.read", "all"}

\* the text json.dumps(list) stores in roles.permissions / groups.permissions,
\* and a text that is no JSON document
json_dumps_list(items) == [json |-> "list", items |-> items]
MalformedText == [json |-> "malformed"]
PermTexts == {json_dumps_list(S) : S \in SUBSET Permissions} \cup {MalformedText}

json_loads(text) ==
    IF text = MalformedText THEN Raise("JSONDecodeError", "Expecting value")
    ELSE Return(text.items)

\* roles.select().where(roles.c.name == name)
fetch_role_by_name(R, name) ==
    IF \E r \in R : r.name = name THEN CHOOSE r \in R : r.name = name ELSE None

\* SELECT r.permissions FROM roles r JOIN users u ON u.role = r.name WHERE u.id = :user_id
fetch_role_permissions(U, R, user_id) ==
    IF \E u \in U, r \in R : u.id = user_id /\ u.role = r.name
    THEN [permissions |-> (CHOOSE r \in R : \E u \in U : u.id = user_id /\ u.role = r.name).permissions]
    ELSE None

\* SELECT g.* FROM groups g JOIN user_groups ug ON g.id = ug.group_id WHERE ug.user_id = :user_id
fetch_groups_of_user(G, UG, user_id) ==
    {g \in G : \E ug \in UG : ug.user_id = user_id /\ ug.group_id = g.id}

fetch_user_groups(UG, user_id) == {ug \in UG : ug.user_id = user_id}

fetch_user_permission(UP, user_id, permission) ==
    IF [user_id |-> user_id, permission |-> permission] \in UP
    THEN [user_id |-> user_id, permission |-> permission]
    ELSE None

fetch_user_permissions(UP, user_id) == {up \in UP : up.user_id = user_id}

\* rows come back from fetch_one / fetch_all as dicts: `row.name` on a dict raises
getattr_row(row, name) == Raise("AttributeError", "'dict' object has no attribute")

(* ---------- app/core/dependencies.py: require_permission ---------- *)
\* current_user is the principal injected by get_current_user: an object with
\* the attributes id and role
require_permission(permission, current_user, R, G, UG, UP) ==
    IF current_user.role = "admin" THEN Return(current_user)
    ELSE LET role == Await(Return(fetch_role_by_name(R, current_user.role))) IN
         IF IsRaise(role) THEN role
         ELSE IF role.val # None THEN getattr_row(role.val, "permissions")
         ELSE LET user_perm == Await(Return(fetch_user_permission(UP, current_user.id, permission))) IN
              IF IsRaise(user_perm) THEN user_perm
              ELSE IF user_perm.val # None THEN Return(current_user)
              ELSE LET ugs == Await(Return(fetch_user_groups(UG, current_user.id))) IN
                   IF IsRaise(ugs) THEN ugs
                   ELSE IF ugs.val # {} THEN getattr_row(CHOOSE ug \in ugs.val : TRUE, "group_id")
                   ELSE Http(403, [required |-> permission])

(* ---------- app/services/permission_service.py ---------- *)
get_user_groups(user_id, G, UG) == Await(Return(fetch_groups_of_user(G, UG, user_id)))

\* try: json.loads(text) ... except json.JSONDecodeError: logger.error(...)
loads_or_skip(text) ==
    IF IsRaise(json_loads(text)) THEN {} ELSE json_loads(text).val

\* the returned set is wrapped as [set |-> ...]
get_user_permissions(user_id, U, R, G, UG, UP) ==
    LET role_result == Await(Return(fetch_role_permissions(U, R, user_id))) IN
    IF IsRaise(role_result) THEN role_result
    ELSE LET role_perms == IF role_result.val # None
                           THEN loads_or_skip(role_result.val.permissions) ELSE {}
             user_group_list == get_user_groups(user_id, G, UG)
         IN IF IsRaise(user_group_list) THEN user_group_list
            ELSE LET group_perms == UNION {loads_or_skip(g.permissions) : g \in user_group_list.val}
                     user_perms == Await(Return(fetch_user_permissions(UP, user_id)))
                 IN IF IsRaise(user_perms) THEN user_perms
                    ELSE Return([set |-> role_perms \cup group_perms
                                         \cup {perm.permission : perm \in user_perms.val}])

check_user_permission(user_id, required_permission, U, R, G, UG, UP) ==
    LET user_perms == get_user_permissions(user_id, U, R, G, UG, UP) IN
    IF IsRaise(user_perms) THEN user_perms
    ELSE Return(PyBool(required_permission \in user_perms.val.set))

(* ---------- permission queries over every content of the tables ---------- *)
PermUsers ==
    {NewUser(1, "a@x.com", hash_password("pw1"), TRUE, "student", NoProvider),
     NewUser(2, "b@x.com", hash_password("pw2"), TRUE, "admin", NoProvider)}

\* roles.name is UNIQUE: at most one row per name
StudentRoleRows ==
    {{}} \cup {{[id |-> 1, name |-> "student", permissions |-> t]} : t \in PermTexts}
AdminRoleRows ==
    {{}, {[id |-> 2, name |-> "admin", permissions |-> json_dumps_list({"all"})]}}
GroupRows ==
    {{}} \cup {{[id |-> 1, name |-> "editors", permissions |-> t]} : t \in PermTexts}
Memberships == {[user_id |-> 1, group_id |-> 1], [user_id |-> 2, group_id |-> 1]}
Grants == {[user_id |-> 1, permission |-> "blog.write"], [user_id |-> 1, permission |-> "all"],
           [user_id |-> 2, permission |-> "blog.write"]}

\* principals: the users rows as objects, and the env-based admin
Principal(u) == [id |-> u.id, role |-> u.role]
Principals == {Principal(u) : u \in users} \cup {[id |-> 0, role |-> "admin"]}

PermArg(user_id, role, permission) == [user |-> user_id, role |-> role, permission |-> permission]

PermInit ==
    /\ users = PermUsers
    /\ nextUserId = 3
    /\ sessions = {}
    /\ audit_logs = <<>>
    /\ issued = {}
    /\ mail = {}
    /\ now = 0
    /\ ops = 0
    /\ last = Call("init", NoArg, Return(None), Return(None), {}, <<>>)
    /\ \E rs \in StudentRoleRows, ra \in AdminRoleRows : roles = rs \cup ra
    /\ groups \in GroupRows
    /\ user_groups \in SUBSET Memberships
    /\ user_permissions \in SUBSET Grants
    /\ reqs = <<>>

PermUnchanged ==
    UNCHANGED <<users, nextUserId, sessions, audit_logs, issued, mail, now, ops,
                PermTables, reqs>>

RequirePermission(current_user, permission) ==
    /\ LET r == require_permission(permission, current_user, roles, groups,
                                   user_groups, user_permissions) IN
       last' = Call("require_permission",
                    PermArg(current_user.id, current_user.role, permission), r, r, {}, <<>>)
    /\ PermUnchanged

GetUserPermissions(u) ==
    /\ LET r == get_user_permissions(u.id, users, roles, groups, user_groups,
                                     user_permissions) IN
       last' = Call("get_user_permissions", PermArg(u.id, u.role, ""), r, r, {}, <<>>)
    /\ PermUnchanged

CheckUserPermission(u, permission) ==
    /\ LET r == check_user_permission(u.id, permission, users, roles, groups,
                                      user_groups, user_permissions) IN
       last' = Call("check_user_permission", PermArg(u.id, u.role, permission), r, r, {}, <<>>)
    /\ PermUnchanged

PermNext ==
    \/ \E cu \in Principals, p \in QueryPermissions : RequirePermission(cu, p)
    \/ \E u \in users : GetUserPermissions(u)
    \/ \E u \in users, p \in QueryPermissions : CheckUserPermission(u, p)

PermSpec == PermInit /\ [][PermNext]_vars

(* ---------- claims checked under PermSpec ---------- *)

\* what a serialized list contributes to a user's permissions
ListOf(text) == IF text = MalformedText THEN {} ELSE text.items

\* the union of the role's list, the lists of the user's groups and the grants
ExactUnion(u) ==
    UNION {ListOf(r.permissions) : r \in {x \in roles : x.name = u.role}}
    \cup UNION {ListOf(g.permissions) :
                  g \in {x \in groups : [user_id |-> u.id, group_id |-> x.id] \in user_groups}}
    \cup {up.permission : up \in {x \in user_permissions : x.user_id = u.id}}

\* a source of the user's permissions holds a malformed serialization
HasMalformedSource(u) ==
    \/ \E r \in roles : r.name = u.role /\ r.permissions = MalformedText
    \/ \E g \in groups : /\ [user_id |-> u.id, group_id |-> g.id] \in user_groups
                         /\ g.permissions = MalformedText

\* C3: for a user whose role is "admin" every permission query allows, whatever
\* the tables hold: require_permission returns the principal and
\* check_user_permission returns True.
C3_AdminHasAll ==
    (last.op \in {"require_permission", "check_user_permission"} /\ last.arg.role = "admin")
    => /\ last.op = "require_permission" => IsReturn(last.ret)
       /\ last.op = "check_user_permission" => last.ret = Return(PyBool(TRUE))

\* the guard's half of C3, which the code keeps: an admin principal is let in
\* although no role row named "admin" exists
C3_Witness ==
    /\ last.op = "require_permission"
    /\ last.arg.role = "admin"
    /\ fetch_role_by_name(roles, "admin") = None
    /\ IsReturn(last.ret)

\* C4: for a non-admin user get_user_permissions returns exactly the union of the
\* role's permission list, the lists of the user's groups and the user's grants.
C4_ExactUnion ==
    (last.op = "get_user_permissions" /\ last.arg.role # "admin")
    => last.ret = Return([set |-> ExactUnion(fetch_user_by_id(users, last.arg.user))])

\* C5: for a non-admin user require_permission(p) allows exactly when
\* check_user_permission(user, p) is true, and otherwise denies with 403.
C5_GuardAgreesWithSet ==
    (last.op = "require_permission" /\ last.arg.role # "admin")
    => LET chk == check_user_permission(last.arg.user, last.arg.permission, users, roles,
                                        groups, user_groups, user_permissions)
       IN /\ IsReturn(chk)
          /\ IsReturn(last.ret) \/ (last.ret.kind = "http" /\ last.ret.val.status = 403)
          /\ IsReturn(last.ret) <=> chk.val = PyBool(TRUE)

\* C6: with a malformed serialization in the role row or in a joined group, the
\* source contributes nothing and no exception reaches the caller:
\* get_user_permissions returns the union of the other sources, require_permission
\* ends in allow or in a 403.
C6_MalformedIsEmpty ==
    (/\ last.op \in {"get_user_permissions", "require_permission"}
     /\ last.arg.role # "admin"
     /\ HasMalformedSource(fetch_user_by_id(users, last.arg.user)))
    => /\ last.op = "get_user_permissions" =>
              /\ IsReturn(last.ret)
              /\ last.ret.val.set = ExactUnion(fetch_user_by_id(users, last.arg.user))
       /\ last.op = "require_permission" =>
              IsReturn(last.ret) \/ (last.ret.kind = "http" /\ last.ret.val.status = 403)

(* ---------- concurrent requests on the users table ---------- *)
MaxReqs == 3           \* requests in flight in one behaviour

\* users.update().where(users.c.id == id).values(email=new_email, is_verified=False)
update_user_email(U, id, new_email) ==
    IF \E u \in U : u.email = new_email /\ u.id # id
    THEN Raise("IntegrityError", "UNIQUE constraint failed: users.email")
    ELSE Return({IF u.id = id THEN [u EXCEPT !.email = new_email, !.is_verified = FALSE] ELSE u
                 : u \in U})

\* users.select().where(oauth_provider == provider & oauth_provider_id == provider_id)
fetch_user_by_oauth(U, provider, provider_id) ==
    IF \E u \in U : u.oauth_provider = provider /\ u.oauth_provider_id = provider_id
    THEN CHOOSE u \in U : u.oauth_provider = provider /\ u.oauth_provider_id = provider_id
    ELSE None

\* routers/admin.py create_user from the insert on
create_user_insert(U, nextId, email, password, role) ==
    LET row == NewUser(nextId, email, hash_password(password), TRUE, role, NoProvider)
        ins == insert_user(U, row)
    IN IF IsRaise(ins) THEN [ret |-> ins, users |-> U]
       ELSE [ret |-> Return([user |-> row]), users |-> U \cup {row}]

\* find_or_create_oauth_user from the insert on; the password is a random one
oauth_insert(U, nextId, email, provider, provider_id) ==
    LET row == [NewUser(nextId, email, hash_password("<random>"), TRUE, "student", provider)
                  EXCEPT !.oauth_provider_id = provider_id]
        ins == insert_user(U, row)
    IN IF IsRaise(ins) THEN [ret |-> ins, users |-> U]
       ELSE [ret |-> Return(row), users |-> U \cup {row}]

\* find_or_create_oauth_user linking the provider to the row found by email
oauth_link(U, id, provider, provider_id) ==
    {IF u.id = id THEN [u EXCEPT !.oauth_provider = provider,
                                 !.oauth_provider_id = provider_id,
                                 !.is_verified = TRUE]
     ELSE u : u \in U}

\* a request slot: the call, its position, its arguments, the row it has read,
\* its outcome, whether the email was taken by another row when it came to write,
\* and whether it wrote a row
IdleReq ==
    [op |-> "none", pc |-> "idle", email |-> "", user |-> 0, password |-> "",
     seen |-> None, outcome |-> Return(None), lost |-> FALSE, wrote |-> FALSE]

Begin(op, pc, email, user, password, outcome) ==
    [IdleReq EXCEPT !.op = op, !.pc = pc, !.email = email, !.user = user,
                    !.password = password, !.outcome = outcome]

Finish(req, outcome, lost, wrote) ==
    [req EXCEPT !.pc = "done", !.outcome = outcome, !.lost = lost, !.wrote = wrote]

CanBegin(r) == reqs[r].pc = "idle" /\ (IF r = 1 THEN TRUE ELSE reqs[r - 1].pc # "idle")

TakenByOther(U, email, id) == \E u \in U : u.email = email /\ u.id # id

RaceInit ==
    /\ users = {NewUser(1, "a@x.com", hash_password("pw1"), TRUE, "student", NoProvider)}
    /\ nextUserId = 2
    /\ sessions = {}
    /\ audit_logs = <<>>
    /\ issued = {}
    /\ mail = {}
    /\ now = 0
    /\ ops = 0
    /\ last = Call("init", NoArg, Return(None), Return(None), {}, <<>>)
    /\ roles = {}
    /\ groups = {}
    /\ user_groups = {}
    /\ user_permissions = {}
    /\ reqs = [r \in 1..MaxReqs |-> IdleReq]

ReadOnly ==
    UNCHANGED <<users, nextUserId, sessions, audit_logs, issued, mail, now, ops, last,
                PermTables>>

\* register_user: the select and the `if exists`
RegisterCheck(r, email, password) ==
    /\ CanBegin(r)
    /\ fetch_user_by_email(users, email) = None => Cardinality(users) < MaxUsers
    /\ reqs' = [reqs EXCEPT ![r] =
                  IF fetch_user_by_email(users, email) # None
                  THEN Finish(Begin("register", "idle", email, 0, password, Return(None)),
                              Raise("ValueError", "User already exists"), FALSE, FALSE)
                  ELSE Begin("register", "checked", email, 0, password, Return(None))]
    /\ ReadOnly

\* register_user: the insert and what follows it
RegisterInsert(r) ==
    /\ reqs[r].op = "register" /\ reqs[r].pc = "checked"
    /\ LET res == register_insert(users, nextUserId, reqs[r].email, reqs[r].password,
                                  TRUE, now, r) IN
       /\ users' = res.users
       /\ nextUserId' = IF res.users = users THEN nextUserId ELSE nextUserId + 1
       /\ issued' = issued \cup res.tokens
       /\ mail' = mail \cup res.mail
       /\ audit_logs' = audit_logs \o res.logs
       /\ reqs' = [reqs EXCEPT ![r] =
                     Finish(@, res.ret, TakenByOther(users, @.email, 0), res.users # users)]
    /\ UNCHANGED <<sessions, now, ops, last, PermTables>>

\* admin create_user: the select and the `if existing`
CreateUserCheck(r, email, password) ==
    /\ CanBegin(r)
    /\ fetch_user_by_email(users, email) = None => Cardinality(users) < MaxUsers
    /\ reqs' = [reqs EXCEPT ![r] =
                  IF fetch_user_by_email(users, email) # None
                  THEN Finish(Begin("create_user", "idle", email, 0, password, Return(None)),
                              Http(400, "User already exists"), FALSE, FALSE)
                  ELSE Begin("create_user", "checked", email, 0, password, Return(None))]
    /\ ReadOnly

\* admin create_user: the insert; its exception is not caught
CreateUserInsert(r) ==
    /\ reqs[r].op = "create_user" /\ reqs[r].pc = "checked"
    /\ LET res == create_user_insert(users, nextUserId, reqs[r].email, reqs[r].password,
                                     "student") IN
       /\ users' = res.users
       /\ nextUserId' = IF res.users = users THEN nextUserId ELSE nextUserId + 1
       /\ reqs' = [reqs EXCEPT ![r] =
                     Finish(@, res.ret, TakenByOther(users, @.email, 0), res.users # users)]
    /\ UNCHANGED <<sessions, audit_logs, issued, mail, now, ops, last, PermTables>>

\* change_email: the reads and the checks on them
ChangeEmailCheck(r, id, password, new_email) ==
    /\ CanBegin(r)
    /\ LET user == fetch_user_by_id(users, id)
           req == Begin("change_email", "checked", new_email, id, password, Return(None))
       IN reqs' = [reqs EXCEPT ![r] =
             IF user = None THEN Finish(req, Http(404, "User not found"), FALSE, FALSE)
             ELSE IF IsFalsy(user.hashed_password)
             THEN Finish(req, Http(400, "Cannot change email for OAuth accounts without password"),
                         FALSE, FALSE)
             ELSE IF ~verify_password(password, user.hashed_password)
             THEN Finish(req, Http(400, "Password is incorrect"), FALSE, FALSE)
             ELSE IF fetch_user_by_email(users, new_email) # None
             THEN Finish(req, Http(400, "Email already in use"), FALSE, FALSE)
             ELSE [req EXCEPT !.seen = user]]
    /\ ReadOnly

\* change_email: the update, the audit call, and `except Exception` -> 500 for
\* an exception of either
ChangeEmailUpdate(r) ==
    /\ reqs[r].op = "change_email" /\ reqs[r].pc = "checked"
    /\ LET upd == update_user_email(users, reqs[r].user, reqs[r].email)
           audit == log(reqs[r].user, "email.change",
                        [old_email |-> reqs[r].seen.email, new_email |-> reqs[r].email])
       IN
       /\ users' = IF IsRaise(upd) THEN users ELSE upd.val
       /\ audit_logs' = IF IsRaise(upd) \/ IsRaise(audit) THEN audit_logs
                        ELSE Append(audit_logs, audit.val)
       /\ reqs' = [reqs EXCEPT ![r] =
                     Finish(@, IF IsRaise(upd) \/ IsRaise(audit)
                               THEN Http(500, "Failed to change email")
                               ELSE Return([new_email |-> @.email]),
                            TakenByOther(users, @.email, @.user),
                            ~IsRaise(upd) /\ upd.val # users)]
    /\ UNCHANGED <<nextUserId, sessions, issued, mail, now, ops, last, PermTables>>

\* find_or_create_oauth_user: the lookup by provider account
OAuthLookup(r, email, provider_id) ==
    /\ CanBegin(r)
    /\ LET existing_user == fetch_user_by_oauth(users, "google", provider_id)
           req == Begin("oauth", "no_account", email, 0, provider_id, Return(None))
       IN reqs' = [reqs EXCEPT ![r] =
             IF existing_user # None THEN Finish(req, Return(existing_user), FALSE, FALSE)
             ELSE req]
    /\ ReadOnly

\* find_or_create_oauth_user: the lookup by email
OAuthEmailLookup(r) ==
    /\ reqs[r].op = "oauth" /\ reqs[r].pc = "no_account"
    /\ fetch_user_by_email(users, reqs[r].email) = None => Cardinality(users) < MaxUsers
    /\ LET existing_email_user == fetch_user_by_email(users, reqs[r].email) IN
       reqs' = [reqs EXCEPT ![r] =
             IF existing_email_user # None
             THEN [@ EXCEPT !.pc = "link", !.seen = existing_email_user]
             ELSE [@ EXCEPT !.pc = "checked"]]
    /\ ReadOnly

\* find_or_create_oauth_user: the update that links the provider to the row found
OAuthLink(r) ==
    /\ reqs[r].op = "oauth" /\ reqs[r].pc = "link"
    /\ users' = oauth_link(users, reqs[r].seen.id, "google", reqs[r].password)
    /\ reqs' = [reqs EXCEPT ![r] = Finish(@, Return(@.seen), FALSE, users' # users)]
    /\ UNCHANGED <<nextUserId, sessions, audit_logs, issued, mail, now, ops, last, PermTables>>

\* find_or_create_oauth_user: the insert; its exception is not caught
OAuthInsert(r) ==
    /\ reqs[r].op = "oauth" /\ reqs[r].pc = "checked"
    /\ LET res == oauth_insert(users, nextUserId, reqs[r].email, "google", reqs[r].password) IN
       /\ users' = res.users
       /\ nextUserId' = IF res.users = users THEN nextUserId ELSE nextUserId + 1
       /\ reqs' = [reqs EXCEPT ![r] =
                     Finish(@, res.ret, TakenByOther(users, @.email, 0), res.users # users)]
    /\ UNCHANGED <<sessions, audit_logs, issued, mail, now, ops, last, PermTables>>

RaceNext ==
    \E r \in 1..MaxReqs :
        \/ \E e \in Emails : RegisterCheck(r, e, "pw1")
        \/ RegisterInsert(r)
        \/ \E e \in Emails : CreateUserCheck(r, e, "pw2")
        \/ CreateUserInsert(r)
        \/ \E u \in users, p \in Passwords, e \in Emails : ChangeEmailCheck(r, u.id, p, e)
        \/ ChangeEmailUpdate(r)
        \/ \E e \in Emails : OAuthLookup(r, e, "g-1")
        \/ OAuthEmailLookup(r)
        \/ OAuthLink(r)
        \/ OAuthInsert(r)

RaceSpec == RaceInit /\ [][RaceNext]_vars

(* ---------- claims checked under RaceSpec ---------- *)

\* C10: the users table holds at most one row per email under every interleaving
\* of register, admin create_user, change_email and OAuth find-or-create; a call
\* that comes to write when another row has taken the email ends in an error and
\* writes no row.
C10_UniqueEmail ==
    /\ \A u1, u2 \in users : u1.email = u2.email => u1 = u2
    /\ \A r \in DOMAIN reqs :
          (reqs[r].pc = "done" /\ reqs[r].lost)
          => (~IsReturn(reqs[r].outcome) /\ ~reqs[r].wrote)

\* change_email passed its check, an OAuth sign-in then created the row with the
\* email, and the update was turned away
C10_Witness ==
    \E r1, r2 \in DOMAIN reqs :
        /\ reqs[r1].op = "change_email" /\ reqs[r1].pc = "done" /\ reqs[r1].lost
        /\ reqs[r1].outcome = Http(500, "Failed to change email")
        /\ reqs[r2].op = "oauth" /\ reqs[r2].pc = "done" /\ reqs[r2].wrote
        /\ reqs[r2].email = reqs[r1].email
        /\ Cardinality(users) = 2

(* ---------- further claims checked under Spec ---------- *)

\* C11: for a validly signed, unexpired refresh token with subject s,
\* refresh_tokens returns a pair whose access token decodes to sub s and type
\* "access" and whose refresh token decodes to sub s and type "refresh"; so the
\* subject is handed on unchanged from each refresh to the next.
C11_RefreshKeepsSubject ==
    \A tk \in Presented :
        LET payload == decode_token(tk, now)
            r == refresh_tokens(tk, now, ops)
        IN (payload # None /\ payload.type = "refresh")
           => /\ IsReturn(r.ret) /\ r.ret.val # None
              /\ decode_token(r.ret.val.access_token, now) # None
              /\ decode_token(r.ret.val.access_token, now).sub = payload.sub
              /\ decode_token(r.ret.val.access_token, now).type = "access"
              /\ decode_token(r.ret.val.refresh_token, now) # None
              /\ decode_token(r.ret.val.refresh_token, now).sub = payload.sub
              /\ decode_token(r.ret.val.refresh_token, now).type = "refresh"

\* an unexpired refresh token of user 1 was handed to refresh_tokens, and the
\* call ended in the exception of the audit statement instead of a pair
C11_Witness ==
    /\ last.op = "refresh"
    /\ last.arg.token \in issued
    /\ decode_token(last.arg.token, now) # None
    /\ last.arg.token.payload.type = "refresh"
    /\ last.arg.token.payload.sub = "1"
    /\ IsRaise(last.ret)
    /\ last.ret.val.exc = "CompileError"
    /\ last.tokens = {}

\* C14: for a bearer token with sub "0" and role claim "admin", get_current_user
\* and get_optional_user both yield the same non-persisted admin principal (id 0,
\* role admin, active, verified), whatever the users table holds.
C14_SyntheticAdmin ==
    \A tk \in Presented :
        LET payload == decode_token(tk, now) IN
        (payload # None /\ payload.type = "access" /\ payload.sub = "0" /\ payload.role = "admin")
        => /\ get_current_user(users, tk, now) = Return(EnvAdmin(payload))
           /\ get_optional_user(users, tk, now) = Return(EnvAdmin(payload))

\* the half of C14 the code keeps: get_current_user returned the admin principal
\* for the token of admin_login while the users table has a row, none with id 0
C14_Witness ==
    /\ last.op = "get_current_user"
    /\ last.arg.token \in issued
    /\ last.arg.token.payload.sub = "0"
    /\ users # {}
    /\ fetch_user_by_id(users, 0) = None
    /\ IsReturn(last.ret)
    /\ last.ret.val.id = 0 /\ last.ret.val.role = "admin"
    /\ last.ret.val.is_active /\ last.ret.val.is_verified

\* the exceptions audit_service.log ends in: of json.dumps(meta) and of the insert
AuditErrors ==
    {log(NULL_ID, "auth.success", [session_id |-> Coroutine]), log(NULL_ID, "auth.failure", NoMeta)}

\* C17: an exception of the audit write never becomes the outcome of
\* register_user, authenticate_user, refresh_tokens or logout: each of them still
\* ends with its normal result.
C17_AuditNeverAborts ==
    last.op \in {"register", "login", "refresh", "logout"} => last.ret \notin AuditErrors

\* register_user returned the created row although its audit write raised and
\* stored nothing
C17_Witness ==
    /\ last.op = "register"
    /\ IsReturn(last.ret)
    /\ last.ret.val \in users
    /\ IsRaise(log(last.ret.val.id, "user.register", NoMeta))
    /\ last.logs = <<>>
    /\ audit_logs = <<>>

\* timedelta(hours=24) of create_verification_token, in units of 900 seconds
VERIFY_TOKEN_EXPIRE == 96

\* C24: the token register_user puts in the verification link has type
\* "email_verify" and expires 24 hours after it was made, so that refresh_tokens
\* turns it down (returns None and hands out nothing).
C24_LinkTokenIsVerifyToken ==
    (last.op = "register" /\ IsReturn(last.ret))
    => \A tk \in last.tokens :
          /\ tk.payload.type = "email_verify"
          /\ tk.payload.exp = now + VERIFY_TOKEN_EXPIRE
          /\ refresh_tokens(tk, now, ops) = [ret |-> Return(None), tokens |-> {}, logs |-> <<>>]

\* a registration mailed a link whose token has type "refresh" and the refresh
\* lifetime, and refresh_tokens goes past its type test with it
C24_Witness ==
    /\ last.op = "register"
    /\ IsReturn(last.ret)
    /\ \E m \in mail :
          /\ m.to = last.arg.email
          /\ m.token \in last.tokens
          /\ m.token.payload.type = "refresh"
          /\ m.token.payload.exp = now + REFRESH_TOKEN_EXPIRE
          /\ refresh_tokens(m.token, now, ops).ret # Return(None)

\* the password login of the last call did not succeed
LoginFailed ==
    /\ last.op = "login"
    /\ LET user == fetch_user_by_email(users, last.arg.email) IN
       \/ user = None
       \/ IsFalsy(user.hashed_password)
       \/ ~verify_password(last.arg.password, user.hashed_password)

\* C25: a password login that fails (unknown email, row without a password
\* hash, or password mismatch) appends exactly one audit row, of action
\* "auth.failure" and carrying a reason, and none of action "auth.success".
C25_FailureAudited ==
    LoginFailed
    => /\ Len(last.logs) = 1
       /\ last.logs[1].action = "auth.failure"
       /\ last.logs[1].meta.reason \in {"not_found", "no_password", "invalid_password"}
       /\ \A i \in 1..Len(audit_logs) : audit_logs[i].action # "auth.success"

\* a login with a wrong password for a registered email ended in the exception
\* of audit_service.log and left no row
C25_Witness ==
    /\ LoginFailed
    /\ fetch_user_by_email(users, last.arg.email) # None
    /\ last.ret = auth_invalid_password(fetch_user_by_email(users, last.arg.email)).ret
    /\ IsRaise(last.ret)
    /\ last.logs = <<>>
    /\ audit_logs = <<>>

\* the refresh token an accepted admin_login handed out
AdminRefreshToken(tk) ==
    /\ tk \in issued
    /\ tk.payload.type = "refresh"
    /\ tk.payload.sub = "0"
    /\ tk.payload.role = "admin"

\* C29: refresh_tokens called with the refresh token of admin_login, before it
\* expires, returns a pair whose access token get_current_user resolves to the
\* synthetic administrator (id 0, role admin) the token was issued for.
C29_AdminSurvivesRotation ==
    \A tk \in issued :
       (AdminRefreshToken(tk) /\ decode_token(tk, now) # None)
       => LET r == refresh_tokens(tk, now, ops) IN
          /\ IsReturn(r.ret)
          /\ r.ret.val # None
          /\ get_current_user(users, r.ret.val.access_token, now) = Return(EnvAdmin(tk.payload))

\* the admin's refresh token was presented to refresh_tokens, which raised
C29_Witness ==
    /\ last.op = "refresh"
    /\ AdminRefreshToken(last.arg.token)
    /\ decode_token(last.arg.token, now) # None
    /\ IsRaise(last.ret)
    /\ last.tokens = {}

\* the row a token's subject names has role admin
SubjectIsAdminRow(U, tk) ==
    \E u \in U : Str(u.id) = tk.payload.sub /\ u.role = "admin"

\* C30: every token handed out with sub "0" or with a role claim "admin" was
\* handed out by an admin_login call whose email and password equal the
\* configured ones; no token handed out by register, authenticate (password or
\* OAuth mode) or refresh_tokens is resolved by get_current_user to a principal
\* of role admin unless the row of its subject has role admin.
C30_NoEscalation ==
    [][\A tk \in issued' \ issued :
          /\ (tk.payload.sub = "0" \/ tk.payload.role = "admin")
             => /\ last'.op = "admin_login"
                /\ last'.arg.email = ADMIN_EMAIL
                /\ last'.arg.password = ADMIN_PASSWORD
          /\ last'.op \in {"register", "login", "authenticate_oauth", "refresh"}
             => LET current_user == get_current_user(users', tk, now') IN
                (IsReturn(current_user) /\ current_user.val.role = "admin")
                => SubjectIsAdminRow(users', tk)]_vars

\* admin tokens were handed out to the configured credentials while a
\* registration had handed out a token of its own
C30_Witness ==
    /\ last.op = "admin_login"
    /\ last.arg.email = ADMIN_EMAIL /\ last.arg.password = ADMIN_PASSWORD
    /\ \E tk \in last.tokens : tk.payload.sub = "0" /\ tk.payload.role = "admin"
    /\ \E tk \in issued : tk.payload.sub # "0" /\ tk.payload.role = NoClaim

(* ---------- the token codec on its own: app/core/jwt.py ---------- *)
\* subjects as callers pass them: an int id or a string
Subjects == {[int |-> 1], [str |-> "1"], [str |-> "0"]}
\* str(subject) of _make_payload
PyStr(v) == IF "int" \in DOMAIN v THEN Str(v.int) ELSE v.str
\* expires_delta: negative, None (written 0), and positive
TTLs == {-1, 0, 1}
TokenTicks == {1, 700}

\* what can be handed to decode_token: tokens made here, the same tokens signed
\* with another key, and a string that is no token
Decodable == issued \cup {Forge(tk) : tk \in issued} \cup {Malformed}

TokenArg(subject, expires_delta) == [subject |-> subject, expires_delta |-> expires_delta]

TokenInit ==
    /\ users = {}
    /\ nextUserId = 1
    /\ sessions = {}
    /\ audit_logs = <<>>
    /\ issued = {}
    /\ mail = {}
    /\ now = 0
    /\ ops = 0
    /\ last = Call("init", NoArg, Return(None), Return(None), {}, <<>>)
    /\ roles = {}
    /\ groups = {}
    /\ user_groups = {}
    /\ user_permissions = {}
    /\ reqs = <<>>

TokenUnchanged ==
    UNCHANGED <<users, nextUserId, sessions, audit_logs, mail, PermTables, reqs>>

CreateAccessToken(subject, expires_delta) ==
    /\ ops < MaxOps
    /\ LET token == create_access_token(PyStr(subject), expires_delta, NoExtra, now, ops) IN
       /\ issued' = issued \cup {token}
       /\ last' = Call("create_access_token", TokenArg(subject, expires_delta),
                       Return(token), Return(token), {token}, <<>>)
    /\ ops' = ops + 1
    /\ UNCHANGED now
    /\ TokenUnchanged

CreateRefreshToken(subject, expires_delta) ==
    /\ ops < MaxOps
    /\ LET token == create_refresh_token(PyStr(subject), expires_delta, NoExtra, now, ops) IN
       /\ issued' = issued \cup {token}
       /\ last' = Call("create_refresh_token", TokenArg(subject, expires_delta),
                       Return(token), Return(token), {token}, <<>>)
    /\ ops' = ops + 1
    /\ UNCHANGED now
    /\ TokenUnchanged

DecodeToken(token) ==
    /\ ops < MaxOps
    /\ last' = Call("decode_token", [NoArg EXCEPT !.token = token],
                    Return(decode_token(token, now)), Return(decode_token(token, now)),
                    {}, <<>>)
    /\ ops' = ops + 1
    /\ UNCHANGED <<issued, now>>
    /\ TokenUnchanged

TokenTick(d) ==
    /\ ops < MaxOps
    /\ now' = now + d
    /\ ops' = ops + 1
    /\ UNCHANGED <<issued, last>>
    /\ TokenUnchanged

TokenNext ==
    \/ \E s \in Subjects, d \in TTLs : CreateAccessToken(s, d)
    \/ \E s \in Subjects, d \in TTLs : CreateRefreshToken(s, d)
    \/ \E tk \in Decodable : DecodeToken(tk)
    \/ \E d \in TokenTicks : TokenTick(d)

TokenSpec == TokenInit /\ [][TokenNext]_vars

(* ---------- claims checked under TokenSpec ---------- *)

\* C12: a token made by create_access_token(subject) decodes, as long as it has
\* not expired, to a claim set with sub = str(subject) and type "access"; likewise
\* with type "refresh" for create_refresh_token.
C12_RoundTrip ==
    /\ \A tk \in issued : now < tk.payload.exp => decode_token(tk, now) = tk.payload
    /\ last.op \in {"create_access_token", "create_refresh_token"}
       => LET tk == last.ret.val IN
          now < tk.payload.exp
          => /\ decode_token(tk, now) # None
             /\ decode_token(tk, now).sub = PyStr(last.arg.subject)
             /\ decode_token(tk, now).type
                  = (IF last.op = "create_access_token" THEN "access" ELSE "refresh")

\* a refresh token made for the int subject 1 with the default lifetime, still
\* decodable after the clock has moved
C12_Witness ==
    /\ last.op = "create_refresh_token"
    /\ last.arg = TokenArg([int |-> 1], 0)
    /\ now > 0
    /\ decode_token(last.ret.val, now) # None
    /\ decode_token(last.ret.val, now).sub = "1"

MaxCalls == 3          \* administrative calls in one behaviour

\* the id an insert gets: the table's INTEGER PRIMARY KEY continues after the
\* largest id in use
NextId(T) == IF T = {} THEN 1 ELSE (CHOOSE i \in {r.id : r \in T} : \A r \in T : r.id <= i) + 1

\* users.select().where(users.c.role == role_id): the role column holds the
\* role's name and is compared with the id as text
fetch_user_by_role(U, role_id) ==
    IF \E u \in U : u.role = Str(role_id) THEN CHOOSE u \in U : u.role = Str(role_id) ELSE None

\* PermissionService.delete_role, awaited: the outcome and the roles table it leaves
delete_role(role_id, U, R) ==
    LET users_with_role == Await(Return(fetch_user_by_role(U, role_id))) IN
    IF IsRaise(users_with_role) THEN [ret |-> users_with_role, roles |-> R]
    ELSE IF users_with_role.val # None
    THEN [ret |-> Raise("ValueError", "Cannot delete role - users are assigned to it"), roles |-> R]
    ELSE LET deleted == {r \in R : r.id # role_id}
             done == Await(Return(None))
         IN [ret |-> IF IsRaise(done) THEN done ELSE Return(PyBool(TRUE)), roles |-> deleted]

\* the route DELETE /admin/roles/{role_id}: permission_service.delete_role(role_id)
\* without await is a coroutine object that is dropped, then the route answers
delete_role_route(role_id, U, R) ==
    [ret |-> Return([ok |-> TRUE, message |-> "Role deleted"]), roles |-> R]

\* PermissionService.create_group, awaited: groups.name is UNIQUE; the insert
\* runs, then its plain result is awaited
create_group(name, permissions, G) ==
    IF \E g \in G : g.name = name
    THEN [ret |-> Raise("IntegrityError", "UNIQUE constraint failed: groups.name"), groups |-> G]
    ELSE LET row == [id |-> NextId(G), name |-> name, permissions |-> json_dumps_list(permissions)]
             group_id == Await(Return(row.id))
         IN [ret |-> IF IsRaise(group_id) THEN group_id ELSE Return(row),
             groups |-> G \cup {row}]

\* PermissionService.add_user_to_group, awaited: the membership lookup is
\* awaited before anything is inserted; the insert names a column created_at
\* that user_groups does not have
add_user_to_group(user_id, group_id, UG) ==
    LET existing == Await(Return({ug \in UG : ug.user_id = user_id /\ ug.group_id = group_id})) IN
    IF IsRaise(existing) THEN [ret |-> existing, user_groups |-> UG]
    ELSE IF existing.val # {} THEN [ret |-> Return(PyBool(TRUE)), user_groups |-> UG]
    ELSE [ret |-> Raise("CompileError", "Unconsumed column names: created_at"), user_groups |-> UG]

\* PermissionService.remove_user_from_group, awaited: the delete runs, then its
\* plain result is awaited
remove_user_from_group(user_id, group_id, UG) ==
    LET done == Await(Return(None)) IN
    [ret |-> IF IsRaise(done) THEN done ELSE Return(PyBool(TRUE)),
     user_groups |-> {ug \in UG : ~(ug.user_id = user_id /\ ug.group_id = group_id)}]

\* PermissionService.delete_group, awaited: the delete of the memberships runs,
\* then its plain result is awaited; the delete of the group row comes after
\* that await
delete_group(group_id, G, UG) ==
    LET memberships == {ug \in UG : ug.group_id # group_id}
        done == Await(Return(None))
    IN IF IsRaise(done) THEN [ret |-> done, groups |-> G, user_groups |-> memberships]
       ELSE [ret |-> Return(PyBool(TRUE)), groups |-> {g \in G : g.id # group_id},
             user_groups |-> memberships]

\* the route DELETE /admin/groups/{group_id}: permission_service.delete_group(group_id)
\* without await is a coroutine object that is dropped, then the route answers
delete_group_route(group_id, G, UG) ==
    [ret |-> Return([ok |-> TRUE, message |-> "Group deleted"]), groups |-> G, user_groups |-> UG]

RoleIds == {1, 2, 3}
RoleRows == {[id |-> 1, name |-> "student", permissions |-> json_dumps_list({})],
             [id |-> 2, name |-> "editor", permissions |-> json_dumps_list({})],
             [id |-> 3, name |-> "guest", permissions |-> json_dumps_list({})]}
GroupNames == {"editors", "authors"}
GroupIds == {1, 2}
GroupPermissions == {{"blog.write"}, {}}
AdminUsers(role2) ==
    {NewUser(1, "a@x.com", hash_password("pw1"), TRUE, "student", NoProvider),
     NewUser(2, "b@x.com", hash_password("pw2"), TRUE, role2, NoProvider)}
\* the groups table with its memberships: empty, or the group editors with or
\* without user 1 in it
AdminGroupTables ==
    {<<{}, {}>>}
    \cup {<<{[id |-> 1, name |-> "editors", permissions |-> json_dumps_list(P)]}, UG>> :
            P \in GroupPermissions, UG \in SUBSET {[user_id |-> 1, group_id |-> 1]}}

AdminInit ==
    /\ \E role2 \in {"student", "editor"} : users = AdminUsers(role2)
    /\ nextUserId = 3
    /\ sessions = {}
    /\ audit_logs = <<>>
    /\ issued = {}
    /\ mail = {}
    /\ now = 0
    /\ ops = 0
    /\ last = Call("init", NoArg, Return(None), Return(None), {}, <<>>)
    /\ roles \in SUBSET RoleRows
    /\ \E t \in AdminGroupTables : groups = t[1] /\ user_groups = t[2]
    /\ user_permissions \in SUBSET {[user_id |-> 1, permission |-> "blog.write"]}
    /\ reqs = <<>>

AdminCalled(op, arg, ret) ==
    /\ ops < MaxCalls
    /\ ops' = ops + 1
    /\ last' = Call(op, arg, ret, ret, {}, <<>>)
    /\ UNCHANGED <<users, nextUserId, sessions, audit_logs, issued, mail, now,
                   user_permissions, reqs>>

DeleteRole(role_id) ==
    /\ LET r == delete_role(role_id, users, roles) IN
       /\ roles' = r.roles
       /\ AdminCalled("delete_role", [role_id |-> role_id], r.ret)
    /\ UNCHANGED <<groups, user_groups>>

DeleteRoleRoute(role_id) ==
    /\ LET r == delete_role_route(role_id, users, roles) IN
       /\ roles' = r.roles
       /\ AdminCalled("delete_role_route", [role_id |-> role_id], r.ret)
    /\ UNCHANGED <<groups, user_groups>>

CreateGroup(name, permissions) ==
    /\ LET r == create_group(name, permissions, groups) IN
       /\ groups' = r.groups
       /\ AdminCalled("create_group", [name |-> name, permissions |-> permissions], r.ret)
    /\ UNCHANGED <<roles, user_groups>>

AddUserToGroup(user_id, group_id) ==
    /\ LET r == add_user_to_group(user_id, group_id, user_groups) IN
       /\ user_groups' = r.user_groups
       /\ AdminCalled("add_user_to_group", [user_id |-> user_id, group_id |-> group_id], r.ret)
    /\ UNCHANGED <<roles, groups>>

RemoveUserFromGroup(user_id, group_id) ==
    /\ LET r == remove_user_from_group(user_id, group_id, user_groups) IN
       /\ user_groups' = r.user_groups
       /\ AdminCalled("remove_user_from_group", [user_id |-> user_id, group_id |-> group_id], r.ret)
    /\ UNCHANGED <<roles, groups>>

DeleteGroup(group_id) ==
    /\ LET r == delete_group(group_id, groups, user_groups) IN
       /\ groups' = r.groups
       /\ user_groups' = r.user_groups
       /\ AdminCalled("delete_group", [group_id |-> group_id], r.ret)
    /\ UNCHANGED roles

DeleteGroupRoute(group_id) ==
    /\ LET r == delete_group_route(group_id, groups, user_groups) IN
       /\ groups' = r.groups
       /\ user_groups' = r.user_groups
       /\ AdminCalled("delete_group_route", [group_id |-> group_id], r.ret)
    /\ UNCHANGED roles

CheckPermission(user_id, permission) ==
    /\ AdminCalled("check_user_permission", [user_id |-> user_id, permission |-> permission],
                   check_user_permission(user_id, permission, users, roles, groups,
                                         user_groups, user_permissions))
    /\ UNCHANGED <<roles, groups, user_groups>>

AdminNext ==
    \/ \E role_id \in RoleIds : DeleteRole(role_id)
    \/ \E role_id \in RoleIds : DeleteRoleRoute(role_id)
    \/ \E name \in GroupNames, P \in GroupPermissions : CreateGroup(name, P)
    \/ \E u \in users, g \in GroupIds : AddUserToGroup(u.id, g)
    \/ \E u \in users, g \in GroupIds : RemoveUserFromGroup(u.id, g)
    \/ \E g \in GroupIds : DeleteGroup(g)
    \/ \E g \in GroupIds : DeleteGroupRoute(g)
    \/ \E u \in users : CheckPermission(u.id, "blog.write")

AdminSpec == AdminInit /\ [][AdminNext]_vars

(* ---------- claims checked under AdminSpec ---------- *)

\* some user row carries the name of the role with this id
RoleInUse(role_id) ==
    \E r \in roles, u \in users : r.id = role_id /\ u.role = r.name

\* every user's role names a row of the roles table
RolesResolve(U, R) == \A u \in U : \E r \in R : r.name = u.role

\* C15: delete_role on a role whose name some user row carries ends in an error
\* and leaves the roles table as it was; so from a state where every user's role
\* names a role row, delete_role calls never leave a user with a deleted role.
C15_DeleteRoleRefused ==
    [][(last'.op \in {"delete_role", "delete_role_route"} /\ ops' # ops) =>
         /\ RoleInUse(last'.arg.role_id) => (~IsReturn(last'.ret) /\ roles' = roles)
         /\ RolesResolve(users, roles) => RolesResolve(users', roles')]_vars

\* the route was asked to delete the role of user 1 and answered that the role
\* was deleted, while the row is still in the table
C15_Witness ==
    /\ last.op = "delete_role_route"
    /\ RoleInUse(last.arg.role_id)
    /\ last.ret = Return([ok |-> TRUE, message |-> "Role deleted"])
    /\ \E r \in roles : r.id = last.arg.role_id

\* the group with this id lists the permission
GroupGrants(group_id, permission, G) ==
    \E g \in G : g.id = group_id /\ permission \in ListOf(g.permissions)

\* C20: for a non-admin user u and the permission p, right after
\* add_user_to_group(u, g) with p in the list of g the permission check for
\* (u, p) answers true; right after remove_user_from_group(u, g), when no source
\* grants p any more, it answers false; and adding or removing another user
\* leaves the answer for u as it was.
C20_GroupGrant ==
    [][ops' # ops =>
         \A u \in users :
            u.role # "admin" =>
            LET before == check_user_permission(u.id, "blog.write", users, roles, groups,
                                                user_groups, user_permissions)
                after == check_user_permission(u.id, "blog.write", users', roles', groups',
                                               user_groups', user_permissions')
            IN /\ (/\ last'.op = "add_user_to_group"
                   /\ last'.arg.user_id = u.id
                   /\ GroupGrants(last'.arg.group_id, "blog.write", groups))
                  => after = Return(PyBool(TRUE))
               /\ (/\ last'.op = "remove_user_from_group"
                   /\ last'.arg.user_id = u.id
                   /\ "blog.write" \notin ExactUnion(u)')
                  => after = Return(PyBool(FALSE))
               /\ (/\ last'.op \in {"add_user_to_group", "remove_user_from_group"}
                   /\ last'.arg.user_id # u.id)
                  => after = before]_vars

\* a group granting blog.write was created, and the call that adds user 1 to it
\* ended in the exception of its first awaited lookup with no membership stored
C20_Witness ==
    /\ last.op = "add_user_to_group"
    /\ last.arg.user_id = 1
    /\ GroupGrants(last.arg.group_id, "blog.write", groups)
    /\ IsRaise(last.ret)
    /\ [user_id |-> 1, group_id |-> last.arg.group_id] \notin user_groups
    /\ IsRaise(check_user_permission(1, "blog.write", users, roles, groups,
                                     user_groups, user_permissions))

\* every membership row names a row of the groups table
MembershipsResolve(G, UG) == \A ug \in UG : \E g \in G : g.id = ug.group_id

PyStrOf(s) == [str |-> s]

\* the bodies of PATCH /admin/users/{user_id} (UserUpdate): a field left out is None
UserUpdates ==
    {[role |-> None, is_active |-> None, is_verified |-> None],
     [role |-> None, is_active |-> None, is_verified |-> PyBool(FALSE)],
     [role |-> None, is_active |-> None, is_verified |-> PyBool(TRUE)],
     [role |-> None, is_active |-> PyBool(FALSE), is_verified |-> None],
     [role |-> PyStrOf("admin"), is_active |-> PyBool(TRUE), is_verified |-> None]}

\* routers/admin.py update_user: the update, the select, and dict(user), which
\* raises on None
update_user(user_id, payload, U) ==
    IF payload.role = None /\ payload.is_active = None /\ payload.is_verified = None
    THEN [ret |-> Http(400, "No updates provided"), users |-> U]
    ELSE LET updated ==
               {IF u.id # user_id THEN u
                ELSE [u EXCEPT
                        !.role = IF payload.role = None THEN @ ELSE payload.role.str,
                        !.is_active = IF payload.is_active = None THEN @
                                      ELSE payload.is_active.bool,
                        !.is_verified = IF payload.is_verified = None THEN @
                                        ELSE payload.is_verified.bool]
                : u \in U}
             user == fetch_user_by_id(updated, user_id)
         IN [ret |-> IF user = None
                     THEN Raise("TypeError", "'NoneType' object is not iterable")
                     ELSE Return([user |-> user]),
             users |-> updated]

\* routers/profile.py change_email for the principal with this id
change_email(id, password, new_email, U) ==
    LET user == fetch_user_by_id(U, id) IN
    IF user = None THEN [ret |-> Http(404, "User not found"), users |-> U]
    ELSE IF IsFalsy(user.hashed_password)
    THEN [ret |-> Http(400, "Cannot change email for OAuth accounts without password"), users |-> U]
    ELSE IF ~verify_password(password, user.hashed_password)
    THEN [ret |-> Http(400, "Password is incorrect"), users |-> U]
    ELSE IF fetch_user_by_email(U, new_email) # None
    THEN [ret |-> Http(400, "Email already in use"), users |-> U]
    ELSE LET upd == update_user_email(U, id, new_email)
             audit == log(id, "email.change", [old_email |-> user.email, new_email |-> new_email])
         IN [ret |-> IF IsRaise(upd) \/ IsRaise(audit) THEN Http(500, "Failed to change email")
                     ELSE Return([new_email |-> new_email]),
             users |-> IF IsRaise(upd) THEN U ELSE upd.val]

\* routers/profile.py update_profile: full_name and profile_picture are the only
\* columns written, then the audit call raises into `except Exception`
update_profile(id, has_fields, U) ==
    IF ~has_fields THEN [ret |-> Http(400, "No fields to update"), users |-> U]
    ELSE LET audit == log(id, "profile.update", [fields |-> "full_name"]) IN
         [ret |-> IF IsRaise(audit) THEN Http(500, "Failed to update profile")
                  ELSE Return([id |-> id]),
          users |-> U]

\* routers/auth.py verify_email: payload.get("user_id") on None raises, and no
\* token of core/jwt.py carries a user_id claim; both end in the same 400
verify_email(token, t, U) ==
    [ret |-> Http(400, "Invalid or expired token"), users |-> U]

\* OAuthService.find_or_create_oauth_user in one piece
find_or_create_oauth_user(email, provider, provider_id, U, nextId) ==
    LET existing_user == fetch_user_by_oauth(U, provider, provider_id)
        existing_email_user == fetch_user_by_email(U, email)
    IN IF existing_user # None THEN [ret |-> Return(existing_user), users |-> U]
       ELSE IF existing_email_user # None
       THEN [ret |-> Return(existing_email_user),
             users |-> oauth_link(U, existing_email_user.id, provider, provider_id)]
       ELSE oauth_insert(U, nextId, email, provider, provider_id)

\* the row GDPRService.delete_user_account leaves of an anonymized user
anonymized(u) ==
    [u EXCEPT !.email = "deleted_user_" \o Str(u.id) \o "@deleted.local", !.hashed_password = [str |-> ""],
              !.is_active = FALSE, !.is_verified = FALSE,
              !.oauth_provider = NoProvider, !.oauth_provider_id = NoProvider]

\* GDPRService.delete_user_account, awaited: every statement runs and then its
\* plain result is awaited, so the call ends at the first of them that is reached
delete_user_account(user_id, hard_delete, U, S) ==
    LET user == Await(Return(fetch_user_by_id(U, user_id))) IN
    IF IsRaise(user) THEN [ret |-> user, users |-> U, sessions |-> S]
    ELSE IF user.val = None
    THEN [ret |-> Raise("ValueError", "User not found"), users |-> U, sessions |-> S]
    ELSE IF hard_delete
    THEN [ret |-> Await(Return(None)), users |-> U,
          sessions |-> {x \in S : x.user_id # user_id}]
    ELSE [ret |-> Await(Return(None)),
          users |-> {IF u.id = user_id THEN anonymized(u) ELSE u : u \in U},
          sessions |-> S]

\* routers/auth.py forgot_password: the plain result of the lookup is awaited;
\* behind it, create_reset_token(user_id=...) names a parameter that
\* create_reset_token(subject) does not have
forgot_password(email, U) ==
    LET user == Await(Return(fetch_user_by_email(U, email))) IN
    IF IsRaise(user) THEN [ret |-> user, users |-> U]
    ELSE IF user.val # None
    THEN [ret |-> Raise("TypeError", "create_reset_token() got an unexpected keyword argument 'user_id'"),
          users |-> U]
    ELSE [ret |-> Return([ok |-> TRUE, message |-> "If the email exists, a reset link has been sent"]),
          users |-> U]

\* main.py startup_event: bootstrap_admin() without await is a coroutine object
\* that is dropped, so the admin row of the environment is not inserted
startup_event(U) == [ret |-> Return(None), users |-> U]

\* dependencies.py require_admin on the outcome of get_current_user
require_admin(current_user) ==
    IF ~IsReturn(current_user) THEN current_user
    ELSE IF current_user.val.role # "admin" THEN Http(403, "Administrator access required")
    ELSE current_user

AccountCalled(op, arg, ret) ==
    /\ ops < MaxOps
    /\ ops' = ops + 1
    /\ last' = Call(op, arg, ret, ret, {}, <<>>)
    /\ UNCHANGED <<sessions, audit_logs, issued, mail, now, PermTables, reqs>>

UpdateUser(user_id, payload) ==
    /\ LET r == update_user(user_id, payload, users) IN
       /\ users' = r.users
       /\ AccountCalled("update_user",
                        [user_id |-> user_id, payload |-> payload,
                         seen |-> fetch_user_by_id(users, user_id)], r.ret)
    /\ UNCHANGED nextUserId

ChangeEmail(id, password, new_email) ==
    /\ LET r == change_email(id, password, new_email, users) IN
       /\ users' = r.users
       /\ AccountCalled("change_email",
                        [user_id |-> id, email |-> new_email,
                         seen |-> fetch_user_by_id(users, id)], r.ret)
    /\ UNCHANGED nextUserId

UpdateProfile(id, has_fields) ==
    /\ LET r == update_profile(id, has_fields, users) IN
       /\ users' = r.users
       /\ AccountCalled("update_profile", [user_id |-> id], r.ret)
    /\ UNCHANGED nextUserId

VerifyEmail(token) ==
    /\ LET r == verify_email(token, now, users) IN
       /\ users' = r.users
       /\ AccountCalled("verify_email", [token |-> token], r.ret)
    /\ UNCHANGED nextUserId

OAuthLogin(email, provider_id) ==
    /\ fetch_user_by_email(users, email) = None => Cardinality(users) < MaxUsers
    /\ LET r == find_or_create_oauth_user(email, "google", provider_id, users, nextUserId) IN
       /\ users' = r.users
       /\ nextUserId' = IF Cardinality(r.users) = Cardinality(users) THEN nextUserId
                        ELSE nextUserId + 1
       /\ AccountCalled("oauth", [email |-> email, provider_id |-> provider_id], r.ret)

DeleteUserAccount(user_id) ==
    /\ LET r == delete_user_account(user_id, FALSE, users, sessions) IN
       /\ users' = r.users
       /\ AccountCalled("delete_user_account", [user_id |-> user_id], r.ret)
    /\ UNCHANGED nextUserId

ForgotPassword(email) ==
    /\ LET r == forgot_password(email, users) IN
       /\ users' = r.users
       /\ AccountCalled("forgot_password", [email |-> email], r.ret)
    /\ UNCHANGED nextUserId

StartupEvent ==
    /\ LET r == startup_event(users) IN
       /\ users' = r.users
       /\ AccountCalled("startup_event", NoArg, r.ret)
    /\ UNCHANGED nextUserId

AccountNext ==
    \/ StartupEvent
    \/ \E e \in Emails : ForgotPassword(e)
    \/ \E e \in Emails, p \in Passwords : Register(e, p, TRUE)
    \/ \E e \in Emails, p \in Passwords : Login(e, p)
    \/ \E u \in users, payload \in UserUpdates : UpdateUser(u.id, payload)
    \/ \E u \in users, p \in Passwords, e \in Emails : ChangeEmail(u.id, p, e)
    \/ \E u \in users, has_fields \in BOOLEAN : UpdateProfile(u.id, has_fields)
    \/ \E tk \in Presented : VerifyEmail(tk)
    \/ \E e \in Emails : OAuthLogin(e, "g-1")
    \/ \E u \in users : DeleteUserAccount(u.id)

AccountSpec == Init /\ [][AccountNext]_vars

(* ---------- claims checked under AccountSpec ---------- *)

\* C16: a password login for a disabled account (is_active false) with the
\* correct password ends exactly as a login with a wrong password does, creates
\* no session row and hands out no token.
C16_DisabledLoginFails ==
    (/\ last.op = "login"
     /\ GoodCredentials(users, last.arg.email, last.arg.password)
     /\ ~fetch_user_by_email(users, last.arg.email).is_active)
    => /\ last.ret = auth_invalid_password(fetch_user_by_email(users, last.arg.email)).ret
       /\ last.tokens = {}
       /\ sessions = {}

\* a disabled account logged in with its correct password, and the call went
\* down the success path (its outcome is the exception of serializing the session)
C16_Witness ==
    /\ last.op = "login"
    /\ GoodCredentials(users, last.arg.email, last.arg.password)
    /\ ~fetch_user_by_email(users, last.arg.email).is_active
    /\ last.ret = log(NULL_ID, "auth.success", [session_id |-> Coroutine])

\* C18: the verification state only moves forward: register creates its row
\* with is_verified false, and no step takes an existing row from is_verified
\* true back to false.
C18_VerifiedForward ==
    [][/\ \A u \in users, v \in users' : (v.id = u.id /\ u.is_verified) => v.is_verified
       /\ last'.op = "register" =>
             \A v \in users' : (\A u \in users : u.id # v.id) => ~v.is_verified]_vars

\* the admin route set is_verified to false on a row that was verified
C18_Witness ==
    /\ last.op = "update_user"
    /\ last.arg.seen # None
    /\ last.arg.seen.is_verified
    /\ IsReturn(last.ret)
    /\ ~fetch_user_by_id(users, last.arg.user_id).is_verified

(* ---------- session rows: session_service.py, routers/admin.py, gdpr_service.py ---------- *)
\* the body of create_session when the coroutine is awaited: the insert runs
\* (revoked takes its default False), then its plain result is awaited
create_session_awaited(user_id, S) ==
    LET row == [id |-> NextId(S), user_id |-> user_id, revoked |-> FALSE]
        res == Await(Return(row.id))
    IN [ret |-> IF IsRaise(res) THEN res ELSE Return(row.id), sessions |-> S \cup {row}]

\* session_service.revoke_session, awaited: update ... values(revoked=True)
\* runs, then its plain result is awaited
revoke_session(session_id, S) ==
    LET done == Await(Return(None)) IN
    [ret |-> IF IsRaise(done) THEN done ELSE Return(PyBool(TRUE)),
     sessions |-> {IF x.id = session_id THEN [x EXCEPT !.revoked = TRUE] ELSE x : x \in S}]

\* the route POST /admin/sessions/{session_id}/revoke: its update names the
\* columns is_active and revoked_at, which the sessions table does not have,
\* so the statement does not compile and no row is touched
revoke_session_route(session_id, S) ==
    [ret |-> Raise("CompileError", "Unconsumed column names: is_active, revoked_at"),
     sessions |-> S]

\* the route DELETE /admin/users/{user_id}: gdpr_service.delete_user_account
\* without await is a coroutine object, which the route returns
delete_user_route(user_id, hard_delete, U, S) ==
    [ret |-> Return(Coroutine), users |-> U, sessions |-> S]

SessionIds == {1, 2, 3}

SessionInit ==
    /\ users = AdminUsers("student")
    /\ nextUserId = 3
    /\ sessions = {}
    /\ audit_logs = <<>>
    /\ issued = {}
    /\ mail = {}
    /\ now = 0
    /\ ops = 0
    /\ last = Call("init", NoArg, Return(None), Return(None), {}, <<>>)
    /\ roles = {} /\ groups = {} /\ user_groups = {} /\ user_permissions = {}
    /\ reqs = <<>>

SessionCalled(op, arg, ret) ==
    /\ ops < MaxOps
    /\ ops' = ops + 1
    /\ last' = Call(op, arg, ret, ret, {}, <<>>)
    /\ UNCHANGED <<nextUserId, audit_logs, issued, mail, now, PermTables, reqs>>

CreateSession(user_id) ==
    /\ LET r == create_session_awaited(user_id, sessions) IN
       /\ sessions' = r.sessions
       /\ SessionCalled("create_session", [user_id |-> user_id], r.ret)
    /\ UNCHANGED users

RevokeSession(session_id) ==
    /\ LET r == revoke_session(session_id, sessions) IN
       /\ sessions' = r.sessions
       /\ SessionCalled("revoke_session", [session_id |-> session_id], r.ret)
    /\ UNCHANGED users

RevokeSessionRoute(session_id) ==
    /\ LET r == revoke_session_route(session_id, sessions) IN
       /\ sessions' = r.sessions
       /\ SessionCalled("revoke_session_route", [session_id |-> session_id], r.ret)
    /\ UNCHANGED users

GdprDelete(user_id, hard_delete) ==
    /\ LET r == delete_user_account(user_id, hard_delete, users, sessions) IN
       /\ users' = r.users
       /\ sessions' = r.sessions
       /\ SessionCalled("delete_user_account",
                        [user_id |-> user_id, hard_delete |-> hard_delete], r.ret)

DeleteUserRoute(user_id, hard_delete) ==
    /\ LET r == delete_user_route(user_id, hard_delete, users, sessions) IN
       /\ users' = r.users
       /\ sessions' = r.sessions
       /\ SessionCalled("delete_user_route",
                        [user_id |-> user_id, hard_delete |-> hard_delete], r.ret)

SessionNext ==
    \/ \E u \in users : CreateSession(u.id)
    \/ \E e \in Emails, p \in Passwords : Login(e, p)
    \/ \E i \in SessionIds : RevokeSession(i)
    \/ \E i \in SessionIds : RevokeSessionRoute(i)
    \/ \E u \in users, hard_delete \in BOOLEAN : GdprDelete(u.id, hard_delete)
    \/ \E u \in users, hard_delete \in BOOLEAN : DeleteUserRoute(u.id, hard_delete)

SessionSpec == SessionInit /\ [][SessionNext]_vars

(* ---------- claims checked under SessionSpec ---------- *)
IdsOf(S) == {x.id : x \in S}

\* the rows of S with the revocation flag set on those that satisfy Target
Revoked(S, Target(_)) == {IF Target(x) THEN [x EXCEPT !.revoked = TRUE] ELSE x : x \in S}

\* C19: session rows are removed by nothing but a GDPR hard-delete of their
\* owner: a revocation (service or admin route) leaves the table as it was except
\* for the set flag of the row with the given id, a GDPR soft-delete except for
\* the set flag of the owner's rows, and the set of session ids never loses an
\* element in a step that is not a hard-delete.
C19_SessionsKept ==
    [][ops' # ops =>
         LET HasId(x) == x.id = last'.arg.session_id
             OwnedBy(x) == x.user_id = last'.arg.user_id
             IsDelete == last'.op \in {"delete_user_account", "delete_user_route"}
         IN /\ last'.op \in {"revoke_session", "revoke_session_route"}
                 => sessions' = Revoked(sessions, HasId)
            /\ (IsDelete /\ ~last'.arg.hard_delete) => sessions' = Revoked(sessions, OwnedBy)
            /\ (IsDelete /\ last'.arg.hard_delete)
                 => /\ sessions' \subseteq sessions
                    /\ \A x \in sessions \ sessions' : OwnedBy(x)
            /\ ~(IsDelete /\ last'.arg.hard_delete) => IdsOf(sessions) \subseteq IdsOf(sessions')]_vars

\* the admin route was asked to revoke an existing session that is not revoked,
\* and ended in the exception of its update with the row as it was
C19_Witness ==
    /\ last.op = "revoke_session_route"
    /\ \E x \in sessions : x.id = last.arg.session_id /\ ~x.revoked
    /\ IsRaise(last.ret)
    /\ last.ret.val.exc = "CompileError"

(* ---------- further claims checked under AccountSpec ---------- *)

\* the login is one of a users row with role admin and with its password
DbAdminLogin ==
    /\ last.op = "login"
    /\ GoodCredentials(users, last.arg.email, last.arg.password)
    /\ fetch_user_by_email(users, last.arg.email).role = "admin"

\* C21: a users row with role admin that logs in through the password login
\* route with its correct credentials gets an access token that
\* get_current_user resolves to that row and that require_admin accepts.
C21_DbAdminAuthorized ==
    DbAdminLogin
    => /\ IsReturn(last.http)
       /\ LET current_user == get_current_user(users, last.http.val.access_token, now) IN
          /\ current_user = Return(fetch_user_by_email(users, last.arg.email))
          /\ require_admin(current_user) = current_user

\* a registered row was given the role admin and logged in with its password;
\* the login route ended in an exception and handed out no token
C21_Witness ==
    /\ DbAdminLogin
    /\ IsRaise(last.http)
    /\ last.tokens = {}

\* the tokens of the verification links that register_user has mailed
MailedTokens == {m.token : m \in mail}

\* C27: presenting the token of a registration's verification link to
\* verify_email before its expiry sets is_verified of the registered user and
\* answers with success; presenting it again right afterwards is answered with
\* 400 and changes nothing.
C27_VerificationCompletes ==
    [][(/\ last'.op = "verify_email"
        /\ ops' # ops
        /\ last'.arg.token \in MailedTokens
        /\ decode_token(last'.arg.token, now) # None)
       => IF last.op = "verify_email" /\ last.arg.token = last'.arg.token
          THEN /\ last'.ret = Http(400, "Invalid or expired token")
               /\ users' = users
          ELSE /\ last'.ret = Return([ok |-> TRUE, message |-> "Email verified successfully"])
               /\ fetch_user_by_id(users', ToInt(last'.arg.token.payload.sub)).is_verified]_vars

\* the unexpired token of a verification link was presented to verify_email
\* for the first time and was answered with 400, the user still unverified
C27_Witness ==
    /\ last.op = "verify_email"
    /\ last.arg.token \in MailedTokens
    /\ decode_token(last.arg.token, now) # None
    /\ last.ret = Http(400, "Invalid or expired token")
    /\ ~fetch_user_by_id(users, ToInt(last.arg.token.payload.sub)).is_verified

\* C28: forgot_password gives the same success response for a registered and
\* for an unregistered email.
C28_SameResponse ==
    \A e1, e2 \in Emails :
        (fetch_user_by_email(users, e1) # None /\ fetch_user_by_email(users, e2) = None)
        => /\ forgot_password(e1, users).ret = forgot_password(e2, users).ret
           /\ forgot_password(e1, users).ret
                = Return([ok |-> TRUE, message |-> "If the email exists, a reset link has been sent"])

\* forgot_password was called for a registered email while another email is
\* not registered, and ended in an exception
C28_Witness ==
    /\ last.op = "forgot_password"
    /\ fetch_user_by_email(users, last.arg.email) # None
    /\ \E e \in Emails : fetch_user_by_email(users, e) = None
    /\ IsRaise(last.ret)

(* ---------- password hashing on its own: app/core/security.py ---------- *)
\* passlib's limit on the length of a secret, and the block size of SHA-256 in
\* bytes, above which HMAC replaces its key by the key's SHA-256 digest
MAX_PASSWORD_SIZE == 4096
SHA256_BLOCK_SIZE == 64
DEFAULT_PBKDF2_ITERATIONS == 260000

\* plaintexts with their length in bytes: two short ones, one longer than a
\* SHA-256 block, the 32-byte string that is the SHA-256 digest of that one,
\* and one longer than passlib accepts
LongPlain == [text |-> "long", size |-> 77]
DigestPlain == [text |-> "sha256(long)", size |-> 32]
Plaintexts ==
    {[text |-> "pw1", size |-> 3], [text |-> "pw2", size |-> 3], LongPlain, DigestPlain,
     [text |-> "oversize", size |-> 4097]}
\* os.urandom(16), and the salt passlib draws
Salts == {"s1", "s2"}
Implementations == {"passlib", "pbkdf2"}

\* the key HMAC works with when keyed by password.encode('utf-8')
hmac_key(password) ==
    IF password.size > SHA256_BLOCK_SIZE THEN "sha256(" \o password.text \o ")" ELSE password.text

\* a mutant: the derived key does not depend on the password
_pbkdf2_hash_keyless(password, salt, iterations) ==
    "pbkdf2_hmac(sha256," \o salt \o ")"

\* hashlib.pbkdf2_hmac('sha256', ...): a function of the HMAC key and the salt
\* (iterations is DEFAULT_PBKDF2_ITERATIONS in every digest made here)
_pbkdf2_hash(password, salt, iterations) ==
    "pbkdf2_hmac(sha256," \o hmac_key(password) \o "," \o salt \o ")"

\* Argon2 of the library behind passlib: a function of the secret and the salt
argon2_hash(password, salt) == "argon2id(" \o password.text \o "," \o salt \o ")"

\* base64: byte strings to text and back; b64decode raises on other text
ByteStrings ==
    Salts \cup {_pbkdf2_hash(pw, salt, DEFAULT_PBKDF2_ITERATIONS) : pw \in Plaintexts, salt \in Salts}
          \cup {argon2_hash(pw, salt) : pw \in Plaintexts, salt \in Salts}
b64encode(bytes) == "b64(" \o bytes \o ")"
b64decode(text) ==
    IF \E b \in ByteStrings : b64encode(b) = text
    THEN Return(CHOOSE b \in ByteStrings : b64encode(b) = text)
    ELSE Raise("binascii.Error", "Incorrect padding")

\* f"{iterations}" and int(parts[1])
FormatInt(n) == IF n = DEFAULT_PBKDF2_ITERATIONS THEN "260000" ELSE "?"
ParseInt(text) ==
    IF text = "260000" THEN Return(DEFAULT_PBKDF2_ITERATIONS)
    ELSE Raise("ValueError", "invalid literal for int() with base 10")

\* a digest string is written as the sequence hashed.split('$') gives
\* the fallback: hash_password
hash_password_pbkdf2(password, salt) ==
    LET iterations == DEFAULT_PBKDF2_ITERATIONS
        dk == _pbkdf2_hash(password, salt, iterations)
    IN Return(<<"pbkdf2_sha256", FormatInt(iterations), b64encode(salt), b64encode(dk)>>)

\* the fallback: verify_password; every exception inside becomes False
verify_password_pbkdf2(plain, hashed) ==
    IF Len(hashed) # 4 THEN Return(PyBool(FALSE))
    ELSE IF hashed[1] # "pbkdf2_sha256" THEN Return(PyBool(FALSE))
    ELSE LET iterations == ParseInt(hashed[2])
             salt == b64decode(hashed[3])
             dk == b64decode(hashed[4])
         IN IF IsRaise(iterations) \/ IsRaise(salt) \/ IsRaise(dk) THEN Return(PyBool(FALSE))
            ELSE Return(PyBool(_pbkdf2_hash(plain, salt.val, iterations.val) = dk.val))

\* pwd_context.hash: passlib refuses a secret longer than MAX_PASSWORD_SIZE
hash_password_passlib(password, salt) ==
    IF password.size > MAX_PASSWORD_SIZE
    THEN Raise("PasswordSizeError", "password exceeds maximum allowed size")
    ELSE Return(<<"", "argon2id", "v=19", "m=65536,t=3,p=4", b64encode(salt),
                  b64encode(argon2_hash(password, salt))>>)

\* the context's only scheme recognises strings that start with $argon2id$
identify_argon2(hashed) ==
    IF Len(hashed) < 3 THEN FALSE ELSE hashed[1] = "" /\ hashed[2] = "argon2id"

\* pwd_context.verify: the digest is identified first, then the secret's size
\* is checked, then the digest is parsed; no exception is caught
verify_password_passlib(plain, hashed) ==
    IF ~identify_argon2(hashed) THEN Raise("UnknownHashError", "hash could not be identified")
    ELSE IF plain.size > MAX_PASSWORD_SIZE
    THEN Raise("PasswordSizeError", "password exceeds maximum allowed size")
    ELSE IF Len(hashed) # 6 THEN Raise("ValueError", "malformed argon2 hash")
    ELSE LET salt == b64decode(hashed[5])
             dk == b64decode(hashed[6])
         IN IF IsRaise(salt) \/ IsRaise(dk) THEN Raise("ValueError", "malformed argon2 hash")
            ELSE Return(PyBool(argon2_hash(plain, salt.val) = dk.val))

\* the pair of functions the import at the top of security.py leaves defined
hash_password_of(impl, password, salt) ==
    IF impl = "passlib" THEN hash_password_passlib(password, salt)
    ELSE hash_password_pbkdf2(password, salt)

verify_password_of(impl, plain, hashed) ==
    IF impl = "passlib" THEN verify_password_passlib(plain, hashed)
    ELSE verify_password_pbkdf2(plain, hashed)

\* stored digests that no hash_password call made: the empty string, "garbage",
\* a fallback digest with a bad iteration count, a cut-off Argon2 digest
EmptyDigest == <<"">>
GarbageDigest == <<"garbage">>
BrokenDigests ==
    {EmptyDigest, GarbageDigest,
     <<"pbkdf2_sha256", "many", b64encode("s1"), b64encode("s1")>>,
     <<"", "argon2id", "v=19">>}

\* the digests of one implementation
DigestsOf(impl) ==
    {hash_password_of(impl, pw, salt).val :
        pw \in {q \in Plaintexts : IsReturn(hash_password_of(impl, q, "s1"))}, salt \in Salts}

\* digests that are no well-formed digest of the implementation in use
NotWellFormed(impl) == BrokenDigests \cup DigestsOf(IF impl = "passlib" THEN "pbkdf2" ELSE "passlib")

NoPlain == [text |-> "", size |-> 0]
HashArg(impl, plain, hashed, of) == [impl |-> impl, plain |-> plain, hashed |-> hashed, of |-> of]

\* the import decides which implementation the process runs with
HashInit ==
    /\ users = {}
    /\ nextUserId = 1
    /\ sessions = {}
    /\ audit_logs = <<>>
    /\ issued = {}
    /\ mail = {}
    /\ now = 0
    /\ ops = 0
    /\ \E impl \in Implementations :
          last = Call("import", HashArg(impl, NoPlain, EmptyDigest, NoPlain),
                      Return(None), Return(None), {}, <<>>)
    /\ roles = {}
    /\ groups = {}
    /\ user_groups = {}
    /\ user_permissions = {}
    /\ reqs = <<>>

HashCalled(op, arg, ret) ==
    /\ ops < MaxOps
    /\ ops' = ops + 1
    /\ last' = Call(op, arg, ret, ret, {}, <<>>)
    /\ UNCHANGED <<users, nextUserId, sessions, audit_logs, issued, mail, now, PermTables, reqs>>

HashPassword(password, salt) ==
    LET impl == last.arg.impl
        r == hash_password_of(impl, password, salt)
    IN HashCalled("hash_password",
                  HashArg(impl, password, IF IsReturn(r) THEN r.val ELSE EmptyDigest, password), r)

\* verify_password on the digest the preceding hash_password returned
VerifyHashed(plain) ==
    /\ last.op = "hash_password"
    /\ IsReturn(last.ret)
    /\ HashCalled("verify_password", HashArg(last.arg.impl, plain, last.ret.val, last.arg.of),
                  verify_password_of(last.arg.impl, plain, last.ret.val))

\* verify_password on a stored digest that is not well-formed
VerifyStored(plain, hashed) ==
    /\ hashed \in NotWellFormed(last.arg.impl)
    /\ HashCalled("verify_stored", HashArg(last.arg.impl, plain, hashed, NoPlain),
                  verify_password_of(last.arg.impl, plain, hashed))

HashNext ==
    \/ \E pw \in Plaintexts, salt \in Salts : HashPassword(pw, salt)
    \/ \E pw \in Plaintexts : VerifyHashed(pw)
    \/ \E pw \in Plaintexts, h \in BrokenDigests \cup DigestsOf("passlib") \cup DigestsOf("pbkdf2") :
          VerifyStored(pw, h)

HashSpec == HashInit /\ [][HashNext]_vars

(* ---------- claims checked under HashSpec ---------- *)

Accepted(impl, password) == impl = "passlib" => password.size <= MAX_PASSWORD_SIZE

C23_VerifyNeverRaises ==
    (last.op = "verify_stored" /\ last.arg.hashed \in NotWellFormed(last.arg.impl))
    => last.ret = Return(PyBool(FALSE))

\* with passlib, verify_password was called on "garbage" and raised; the
\* fallback returns False for the same arguments
C23_Witness ==
    /\ last.op = "verify_stored"
    /\ last.arg.impl = "passlib"
    /\ last.arg.hashed = GarbageDigest
    /\ last.ret = Raise("UnknownHashError", "hash could not be identified")
    /\ verify_password_pbkdf2(last.arg.plain, last.arg.hashed) = Return(PyBool(FALSE))

====
